---------------------------- MODULE Spec2Model ----------------------------
(***************************************************************************)
(* Model of the annotation engine of the PDF editor: AnnotationManager     *)
(* (src/static/js/modules/interactiveLoading.js, from line 273), the       *)
(* helpers of Utils (src/unnamed/part_001) and the page rendering of       *)
(* PDFManager (src/unnamed/part_003).                                      *)
(*                                                                         *)
(* Numbers.  The real-number arithmetic of the code is modelled by exact   *)
(* rationals <<n, d>> (d > 0, lowest terms).  The binary64 rounding of     *)
(* JavaScript numbers is modelled separately, for the coordinate round     *)
(* trip, by the operators F64DivInt and F64MulInt further down.            *)
(***************************************************************************)
EXTENDS Integers, Sequences, FiniteSets, TLC

(***************************************************************************)
(* Exact rational arithmetic.                                              *)
(***************************************************************************)
Abs(i) == IF i < 0 THEN -i ELSE i

RECURSIVE Gcd(_, _)
Gcd(a, b) == IF b = 0 THEN a ELSE Gcd(b, a % b)

Rat(n, d) ==
    LET s == IF d < 0 THEN -1 ELSE 1
        g == Gcd(Abs(n), Abs(d))
    IN  <<(s * n) \div g, (s * d) \div g>>

RInt(i) == <<i, 1>>

Lcm(a, b) == (a \div Gcd(a, b)) * b

RAdd(a, b) ==
    LET l == Lcm(a[2], b[2])
    IN  Rat(a[1] * (l \div a[2]) + b[1] * (l \div b[2]), l)

RNeg(a) == <<-a[1], a[2]>>

RSub(a, b) == RAdd(a, RNeg(b))

RMul(a, b) ==
    LET g1 == Gcd(Abs(a[1]), b[2])
        g2 == Gcd(Abs(b[1]), a[2])
    IN  IF a[1] = 0 \/ b[1] = 0 THEN <<0, 1>>
        ELSE <<(a[1] \div g1) * (b[1] \div g2), (a[2] \div g2) * (b[2] \div g1)>>

RDiv(a, b) == RMul(a, IF b[1] < 0 THEN <<-b[2], -b[1]>> ELSE <<b[2], b[1]>>)

RLe(a, b) == a[1] * b[2] <= b[1] * a[2]

RLt(a, b) == a[1] * b[2] < b[1] * a[2]

RAbs(a) == <<Abs(a[1]), a[2]>>

RMin(a, b) == IF RLe(a, b) THEN a ELSE b

RMax(a, b) == IF RLe(a, b) THEN b ELSE a

Pt(px, py) == [x |-> px, y |-> py]

(***************************************************************************)
(* Viewports.  A viewport is what page.getViewport({scale, rotation})      *)
(* hands to the engine; Null stands for the JavaScript null that           *)
(* deleteAnnotation and openNoteEditor pass to renderAnnotations.          *)
(***************************************************************************)
Null == [null |-> TRUE]

\* The size of the page in PDF points, (width, height), unrotated at scale 1.
pdfPage == [width |-> 96, height |-> 128]

\* page.getViewport({scale, rotation}) of pdf.js: the page box scaled, with
\* width and height exchanged for a quarter turn.
getViewport(scale, rotation) ==
    [width    |-> RMul(RInt(IF rotation % 180 = 0 THEN pdfPage.width ELSE pdfPage.height), scale),
     height   |-> RMul(RInt(IF rotation % 180 = 0 THEN pdfPage.height ELSE pdfPage.width), scale),
     rotation |-> rotation,
     scale    |-> scale]

(***************************************************************************)
(* CoordinateTransformer: canvasToNormalized, normalizedToCanvas.  Both    *)
(* read viewport.width of their argument: with a null viewport the         *)
(* JavaScript raises a TypeError, which the callers below model with       *)
(* their "throws" cases; the operators are only applied to real viewports. *)
(***************************************************************************)
canvasToNormalized(x, y, viewport) ==
    Pt(RDiv(x, viewport.width), RDiv(y, viewport.height))

normalizedToCanvas_swapped(normalizedX, normalizedY, viewport) ==
    Pt(RMul(normalizedX, viewport.height), RMul(normalizedY, viewport.width))

normalizedToCanvas(normalizedX, normalizedY, viewport) ==
    Pt(RMul(normalizedX, viewport.width), RMul(normalizedY, viewport.height))

(***************************************************************************)
(* MigrationAdapter: areCoordinatesNormalized, migratePixelToNormalized.   *)
(***************************************************************************)
LegacyThreshold == 2

RMax4(a, b, c, d) == RMax(RMax(a, b), RMax(c, d))

\* A classifier that takes a largest magnitude of exactly 2 for pixels.
areCoordinatesNormalized_below(annotation, viewport) ==
    IF viewport = Null THEN TRUE
    ELSE LET c == annotation.coordinates
             maxCoord == RMax4(RAbs(c.startX), RAbs(c.startY), RAbs(c.endX), RAbs(c.endY))
         IN  RLt(maxCoord, RInt(LegacyThreshold))

areCoordinatesNormalized(annotation, viewport) ==
    IF viewport = Null THEN TRUE
    ELSE LET c == annotation.coordinates
             maxCoord == RMax4(RAbs(c.startX), RAbs(c.startY), RAbs(c.endX), RAbs(c.endY))
         IN  RLe(maxCoord, RInt(LegacyThreshold))

MapPath(path, viewport) ==
    [i \in 1..Len(path) |-> canvasToNormalized(path[i].x, path[i].y, viewport)]

\* A migration that converts the end corner only.
migratePixelToNormalized_endOnly(annotation, viewport) ==
    IF viewport = Null \/ areCoordinatesNormalized(annotation, viewport)
    THEN annotation
    ELSE LET c == annotation.coordinates
             normalizedEnd == canvasToNormalized(c.endX, c.endY, viewport)
         IN  [annotation EXCEPT !.coordinates =
                 [startX |-> c.startX, startY |-> c.startY,
                  endX |-> normalizedEnd.x, endY |-> normalizedEnd.y]]

migratePixelToNormalized(annotation, viewport) ==
    IF viewport = Null \/ areCoordinatesNormalized(annotation, viewport)
    THEN annotation
    ELSE LET c == annotation.coordinates
             normalizedStart == canvasToNormalized(c.startX, c.startY, viewport)
             normalizedEnd == canvasToNormalized(c.endX, c.endY, viewport)
             a1 == [annotation EXCEPT !.coordinates =
                        [startX |-> normalizedStart.x, startY |-> normalizedStart.y,
                         endX |-> normalizedEnd.x, endY |-> normalizedEnd.y]]
         IN  IF annotation.type = "draw"
             THEN [a1 EXCEPT !.path = MapPath(annotation.path, viewport)]
             ELSE a1

\* The distance to the whole line through the two points: the projection
\* parameter is not clamped.
distanceSqToLineSegment_unclamped(px, py, x1, y1, x2, y2) ==
    LET A == RSub(px, x1)
        B == RSub(py, y1)
        C == RSub(x2, x1)
        D == RSub(y2, y1)
        dot == RAdd(RMul(A, C), RMul(B, D))
        lenSq == RAdd(RMul(C, C), RMul(D, D))
    IN  IF lenSq = <<0, 1>>
        THEN RAdd(RMul(A, A), RMul(B, B))
        ELSE LET param == RDiv(dot, lenSq)
                 dx == RSub(px, RAdd(x1, RMul(param, C)))
                 dy == RSub(py, RAdd(y1, RMul(param, D)))
             IN  RAdd(RMul(dx, dx), RMul(dy, dy))

(***************************************************************************)
(* HitTester: distanceToLineSegment, getAnnotationAtPoint.                 *)
(***************************************************************************)
\* The square of what distanceToLineSegment returns (the code takes the
\* square root of the same sum; the comparison with the tolerance is made on
\* the squares).
distanceSqToLineSegment(px, py, x1, y1, x2, y2) ==
    LET A == RSub(px, x1)
        B == RSub(py, y1)
        C == RSub(x2, x1)
        D == RSub(y2, y1)
        dot == RAdd(RMul(A, C), RMul(B, D))
        lenSq == RAdd(RMul(C, C), RMul(D, D))
    IN  IF lenSq = <<0, 1>>
        THEN RAdd(RMul(A, A), RMul(B, B))
        ELSE LET param == RDiv(dot, lenSq)
                 xx == IF RLt(param, RInt(0)) THEN x1
                       ELSE IF RLt(RInt(1), param) THEN x2
                       ELSE RAdd(x1, RMul(param, C))
                 yy == IF RLt(param, RInt(0)) THEN y1
                       ELSE IF RLt(RInt(1), param) THEN y2
                       ELSE RAdd(y1, RMul(param, D))
                 dx == RSub(px, xx)
                 dy == RSub(py, yy)
             IN  RAdd(RMul(dx, dx), RMul(dy, dy))

NoteSize == 24

DrawTolerance == 10

\* The box test for every type, the note included.
HitTest_storedEnd(migratedAnnotation, x, y, viewport) ==
    LET c == migratedAnnotation.coordinates
        canvasStart == normalizedToCanvas(c.startX, c.startY, viewport)
        canvasEnd == normalizedToCanvas(c.endX, c.endY, viewport)
    IN  /\ RLe(RMin(canvasStart.x, canvasEnd.x), x) /\ RLe(x, RMax(canvasStart.x, canvasEnd.x))
        /\ RLe(RMin(canvasStart.y, canvasEnd.y), y) /\ RLe(y, RMax(canvasStart.y, canvasEnd.y))

\* The geometry test with the boundary of a box left out.
HitTest_openBox(migratedAnnotation, x, y, viewport) ==
    LET c == migratedAnnotation.coordinates
        canvasStart == normalizedToCanvas(c.startX, c.startY, viewport)
        canvasEnd == normalizedToCanvas(c.endX, c.endY, viewport)
        startX == RMin(canvasStart.x, canvasEnd.x)
        startY == RMin(canvasStart.y, canvasEnd.y)
        endX == RMax(canvasStart.x, canvasEnd.x)
        endY == RMax(canvasStart.y, canvasEnd.y)
        path == migratedAnnotation.path
        P(j) == normalizedToCanvas(path[j].x, path[j].y, viewport)
    IN  CASE migratedAnnotation.type = "note" ->
                /\ RLe(canvasStart.x, x) /\ RLe(x, RAdd(canvasStart.x, RInt(NoteSize)))
                /\ RLe(canvasStart.y, y) /\ RLe(y, RAdd(canvasStart.y, RInt(NoteSize)))
          [] migratedAnnotation.type = "draw" ->
                \E j \in 1..(Len(path) - 1) :
                    RLe(distanceSqToLineSegment(x, y, P(j).x, P(j).y, P(j + 1).x, P(j + 1).y),
                        RInt(DrawTolerance * DrawTolerance))
          [] OTHER ->
                /\ RLt(startX, x) /\ RLt(x, endX)
                /\ RLt(startY, y) /\ RLt(y, endY)

\* The switch of getAnnotationAtPoint (lines 464-513) for one candidate that
\* has been through migratePixelToNormalized.
HitTest(migratedAnnotation, x, y, viewport) ==
    LET c == migratedAnnotation.coordinates
        canvasStart == normalizedToCanvas(c.startX, c.startY, viewport)
        canvasEnd == normalizedToCanvas(c.endX, c.endY, viewport)
        startX == RMin(canvasStart.x, canvasEnd.x)
        startY == RMin(canvasStart.y, canvasEnd.y)
        endX == RMax(canvasStart.x, canvasEnd.x)
        endY == RMax(canvasStart.y, canvasEnd.y)
        path == migratedAnnotation.path
        P(j) == normalizedToCanvas(path[j].x, path[j].y, viewport)
    IN  CASE migratedAnnotation.type = "note" ->
                /\ RLe(canvasStart.x, x) /\ RLe(x, RAdd(canvasStart.x, RInt(NoteSize)))
                /\ RLe(canvasStart.y, y) /\ RLe(y, RAdd(canvasStart.y, RInt(NoteSize)))
          [] migratedAnnotation.type = "draw" ->
                \E j \in 1..(Len(path) - 1) :
                    RLe(distanceSqToLineSegment(x, y, P(j).x, P(j).y, P(j + 1).x, P(j + 1).y),
                        RInt(DrawTolerance * DrawTolerance))
          [] OTHER ->
                /\ RLe(startX, x) /\ RLe(x, endX)
                /\ RLe(startY, y) /\ RLe(y, endY)

\* The loop of getAnnotationAtPoint from index i down: the index of the
\* record returned (0 for null) and the page sequence with every candidate
\* examined on the way migrated in place.
RECURSIVE ScanForward(_, _, _, _, _)
ScanForward(pageAnnotations, i, x, y, viewport) ==
    IF i > Len(pageAnnotations) THEN [index |-> 0, list |-> pageAnnotations]
    ELSE LET migrated == migratePixelToNormalized(pageAnnotations[i], viewport)
             list1 == [pageAnnotations EXCEPT ![i] = migrated]
         IN  IF HitTest(migrated, x, y, viewport)
             THEN [index |-> i, list |-> list1]
             ELSE ScanForward(list1, i + 1, x, y, viewport)

RECURSIVE ScanBack(_, _, _, _, _)
ScanBack(pageAnnotations, i, x, y, viewport) ==
    IF i < 1 THEN [index |-> 0, list |-> pageAnnotations]
    ELSE LET migrated == migratePixelToNormalized(pageAnnotations[i], viewport)
             list1 == [pageAnnotations EXCEPT ![i] = migrated]
         IN  IF HitTest(migrated, x, y, viewport)
             THEN [index |-> i, list |-> list1]
             ELSE ScanBack(list1, i - 1, x, y, viewport)

getAnnotationAtPoint_oldestFirst(pageAnnotations, x, y, viewport) ==
    ScanForward(pageAnnotations, 1, x, y, viewport)

getAnnotationAtPoint(pageAnnotations, x, y, viewport) ==
    ScanBack(pageAnnotations, Len(pageAnnotations), x, y, viewport)

(***************************************************************************)
(* Utils.calculateBoundingBox.                                             *)
(***************************************************************************)
RECURSIVE FoldBox(_, _, _)
FoldBox(path, i, box) ==
    IF i > Len(path) THEN box
    ELSE FoldBox(path, i + 1,
                 [minX |-> RMin(box.minX, path[i].x), minY |-> RMin(box.minY, path[i].y),
                  maxX |-> RMax(box.maxX, path[i].x), maxY |-> RMax(box.maxY, path[i].y)])

\* The box spanned by the leftmost and the rightmost point of the path.
calculateBoundingBox_extremePoints(path) ==
    LET lo == CHOOSE i \in 1..Len(path) : \A j \in 1..Len(path) : RLe(path[i].x, path[j].x)
        hi == CHOOSE i \in 1..Len(path) : \A j \in 1..Len(path) : RLe(path[j].x, path[i].x)
    IN  [minX |-> path[lo].x, minY |-> path[lo].y, maxX |-> path[hi].x, maxY |-> path[hi].y]

\* Only applied to a non-empty path (an empty one gives null in the code).
calculateBoundingBox(path) ==
    FoldBox(path, 1, [minX |-> path[1].x, minY |-> path[1].y,
                      maxX |-> path[1].x, maxY |-> path[1].y])

(***************************************************************************)
(* State.                                                                  *)
(***************************************************************************)
VARIABLES
    annotations,    \* AnnotationManager.annotations: page -> sequence of records
    currentTool,    \* AnnotationManager.currentTool
    currentColor,   \* AnnotationManager.currentColor
    thisIsDrawing,  \* AnnotationManager.isDrawing
    currentStroke,  \* AnnotationManager.currentStroke: [null, points]
    layer,          \* the mounted interaction layer and the closure of its handlers
    pdf,            \* PDFManager: pdfDoc, currentPage, scale, rotation, isRendering
    renderPc,       \* where the asynchronous PDFManager.renderPage stands
    zoomPending,    \* setZoom has set the scale and not yet called renderPage
    nextId,         \* the number of identifiers Utils.generateId has handed out
    listed,         \* identifiers of the items of the sidebar list
    pendingEditor,  \* notes whose setTimeout(openNoteEditor) has not fired yet
    lastCall,       \* how the most recent handler ended
    gesture,        \* history: per record, the device box and viewport of its gesture
    surface,        \* the annotation canvas and the note click handler of the layer
    probe           \* the arguments and the result of a single function call

engine == <<annotations, currentTool, currentColor, thisIsDrawing, currentStroke, layer,
            pdf, renderPc, zoomPending, nextId, listed, pendingEditor, lastCall, gesture,
            surface>>

vars == <<engine, probe>>

\* Bounds of the model.
MaxId == 2

MaxStroke == 2

Pages == {1, 2}

Scales == {<<2, 1>>}

\* CONFIG.DEFAULT_SCALE, 1.2.
DefaultScale == <<6, 5>>

Tools == {"select", "highlight", "underline", "strikethrough", "note", "draw", "eraser"}

UNDERLINE_RED == "#ff0000"

NOTE_BACKGROUND == "#ffd700"

DEFAULT_COLOR == "#ffff00"

\* COLORS.GREEN and COLORS.RED, two colours of the palette.
Palette == {"#00FF00", "#FF0000"}

NoteTexts == {"memo"}

\* Pointer positions: the quarter points of the displayed viewport.
Fractions == {<<1, 4>>, <<3, 4>>}

PointerPoints(viewport) ==
    IF viewport = Null THEN {}
    ELSE {Pt(RMul(f, viewport.width), RMul(g, viewport.height)) : f \in Fractions, g \in Fractions}

\* No interaction layer is mounted before the first page is rendered.  A
\* layer is mounted by createPageElements and listens once
\* setupPageInteractions has run; viewport, isDrawing and start are the
\* variables its handlers close over; next is the viewport renderPage holds
\* while it awaits page.render.
NoLayer == [mounted |-> FALSE, listening |-> FALSE, viewport |-> Null,
            isDrawing |-> FALSE, start |-> Pt(RInt(0), RInt(0)), next |-> Null]

NullStroke == [null |-> TRUE, points |-> <<>>]

Stroke(points) == [null |-> FALSE, points |-> points]

\* How a handler ended: op names it, threw says that it ended in an uncaught
\* TypeError, del says whether it called deleteAnnotation and whether the
\* identifier was in the store, ret is what deleteAnnotation returned, made
\* is the identifier of the record it added to the store (0 for none), at is
\* the device point of an eraser press (Null for the other handlers).
Returned(op) ==
    [op |-> op, threw |-> FALSE, del |-> "none", ret |-> "none", made |-> 0, at |-> Null]

Quiet == Returned("handler")

Threw(op) ==
    [op |-> op, threw |-> TRUE, del |-> "none", ret |-> "none", made |-> 0, at |-> Null]

Made(op, id) ==
    [op |-> op, threw |-> FALSE, del |-> "none", ret |-> "none", made |-> id, at |-> Null]

Deleted(op, del) ==
    [op |-> op, threw |-> del.threw,
     del |-> IF del.found THEN "found" ELSE "missing",
     ret |-> IF del.threw THEN "none" ELSE "undefined", made |-> 0, at |-> Null]

NoProbe == [kind |-> "none"]

\* What is on the annotation canvas and in the closure of the note click
\* handler: page is the page createPageElements built the canvas for (0
\* before the first page), drawn the identifiers of the records painted on
\* it since it was last cleared, clickable the identifiers of the notes that
\* the click handler of setupNoteClickHandlers holds.  No handler reads the
\* canvas back, so a specification that is not about the display leaves it
\* unwatched: its canvas is never recorded.
Unwatched == [watched |-> FALSE, page |-> 0, drawn |-> <<>>, clickable |-> {}]

\* The canvas and layer that createPageElements creates for a page.
Blank(pageNum) == [watched |-> TRUE, page |-> pageNum, drawn |-> <<>>, clickable |-> {}]

\* The state after the constructors of AnnotationManager and PDFManager.
ConstructedManagers ==
    /\ annotations = <<>>
    /\ currentTool = "select"
    /\ currentColor = DEFAULT_COLOR
    /\ thisIsDrawing = FALSE
    /\ currentStroke = NullStroke
    /\ layer = NoLayer
    /\ pdf = [pdfDoc |-> FALSE, currentPage |-> 1, scale |-> DefaultScale,
              rotation |-> 0, isRendering |-> FALSE]
    /\ renderPc = "idle"
    /\ zoomPending = FALSE
    /\ nextId = 0
    /\ listed = {}
    /\ pendingEditor = {}
    /\ lastCall = Quiet
    /\ gesture = <<>>

Constructed == ConstructedManagers /\ surface = Unwatched

Init == Constructed /\ probe = NoProbe

(***************************************************************************)
(* AnnotationStore.                                                        *)
(***************************************************************************)
\* this.annotations.get(pageKey) || []
PageList(store, pageNum) == IF pageNum \in DOMAIN store THEN store[pageNum] ELSE <<>>

\* The store with the (possibly new) page entry pageNum holding list.
WithPage(store, pageNum, list) ==
    [q \in DOMAIN store \cup {pageNum} |-> IF q = pageNum THEN list ELSE store[q]]

\* A write-back that stores the array of the page newest record first.
PutBack_newestFirst(store, pageNum, list) ==
    IF pageNum \in DOMAIN store
    THEN [store EXCEPT ![pageNum] = [i \in 1..Len(list) |-> list[Len(list) + 1 - i]]]
    ELSE store

\* A list put back with set(pageKey, list): an absent page appears.
PutBack_materializes(store, pageNum, list) == WithPage(store, pageNum, list)

\* A list that was read with get(pageKey) || [] and mutated in place: an
\* absent page stays absent.
PutBack(store, pageNum, list) ==
    IF pageNum \in DOMAIN store THEN [store EXCEPT ![pageNum] = list] ELSE store

Records(store) == UNION {{store[q][i] : i \in 1..Len(store[q])} : q \in DOMAIN store}

Ids(store) == {r.id : r \in Records(store)}

\* A removal that fills the hole with the last record.
RemoveAt_swapLast(list, index) ==
    [i \in 1..(Len(list) - 1) |-> IF i = index THEN list[Len(list)] ELSE list[i]]

\* pageAnnotations.splice(index, 1)
RemoveAt(list, index) == [i \in 1..(Len(list) - 1) |-> IF i < index THEN list[i] ELSE list[i + 1]]

IndexOf(list, id) ==
    IF \E i \in 1..Len(list) : list[i].id = id
    THEN CHOOSE i \in 1..Len(list) :
            list[i].id = id /\ \A j \in 1..(i - 1) : list[j].id # id
    ELSE 0

\* renderAnnotations(pageNum, canvas, viewport): every record of the page goes
\* through renderSingleAnnotation, which migrates it in place and converts
\* its coordinates with normalizedToCanvas; with a null viewport the first
\* record raises a TypeError (viewport.width of null).  drawn lists the
\* identifiers of the records in the order forEach draws them.
renderAnnotations(store, pageNum, viewport) ==
    LET list == PageList(store, pageNum)
    IN  IF viewport = Null
        THEN [threw |-> Len(list) > 0, store |-> store, drawn |-> <<>>]
        ELSE [threw |-> FALSE,
              store |-> PutBack(store, pageNum,
                          [i \in 1..Len(list) |-> migratePixelToNormalized(list[i], viewport)]),
              drawn |-> [i \in 1..Len(list) |-> list[i].id]]

\* pageAnnotations.filter(a => a.type === 'note')
NoteIds(list) == {list[i].id : i \in {j \in 1..Len(list) : list[j].type = "note"}}

\* The canvas after renderAnnotations(pageNum, canvas, viewport) has cleared
\* and painted it, store being the store the call leaves: with a null
\* viewport the first record raises after the canvas was cleared;
\* setupNoteClickHandlers, the last statement, replaces the click handler
\* and is not reached when a record raises.  The canvas is the one of the
\* mounted layer, whatever pageNum is.
Painted(s, store, pageNum, viewport) ==
    LET list == PageList(store, pageNum)
    IN  IF ~s.watched THEN s
        ELSE IF viewport = Null
        THEN [s EXCEPT !.drawn = <<>>,
                       !.clickable = IF Len(list) > 0 THEN s.clickable ELSE {}]
        ELSE [s EXCEPT !.drawn = [i \in 1..Len(list) |-> list[i].id],
                       !.clickable = NoteIds(list)]

\* ctx.clearRect(0, 0, canvas.width, canvas.height) of clearAnnotations.
Cleared(s) == IF ~s.watched THEN s ELSE [s EXCEPT !.drawn = <<>>]

\* A createAnnotation that drops a box without area.
createAnnotation_skipsEmpty(store, pageNum, startX, startY, endX, endY, tool, color, id) ==
    IF startX = endX /\ startY = endY THEN store
    ELSE WithPage(store, pageNum, Append(PageList(store, pageNum),
            [id |-> id, type |-> tool,
             color |-> IF tool = "underline" THEN UNDERLINE_RED ELSE color,
             coordinates |-> [startX |-> RMin(startX, endX), startY |-> RMin(startY, endY),
                              endX |-> RMax(startX, endX), endY |-> RMax(startY, endY)],
             path |-> <<>>, page |-> pageNum, content |-> ""]))

\* The record as createAnnotation would store it with the colour of the
\* caller, whatever the tool.
createAnnotation_callerColor(store, pageNum, startX, startY, endX, endY, tool, color, id) ==
    WithPage(store, pageNum, Append(PageList(store, pageNum),
        [id |-> id, type |-> tool, color |-> color,
         coordinates |-> [startX |-> RMin(startX, endX), startY |-> RMin(startY, endY),
                          endX |-> RMax(startX, endX), endY |-> RMax(startY, endY)],
         path |-> <<>>, page |-> pageNum, content |-> ""]))

\* The record as createAnnotation would store it without Math.min and
\* Math.max: start is the press and end the release.
createAnnotation_asDragged(store, pageNum, startX, startY, endX, endY, tool, color, id) ==
    WithPage(store, pageNum, Append(PageList(store, pageNum),
        [id |-> id, type |-> tool,
         color |-> IF tool = "underline" THEN UNDERLINE_RED ELSE color,
         coordinates |-> [startX |-> startX, startY |-> startY, endX |-> endX, endY |-> endY],
         path |-> <<>>, page |-> pageNum, content |-> ""]))

createAnnotation(store, pageNum, startX, startY, endX, endY, tool, color, id) ==
    WithPage(store, pageNum, Append(PageList(store, pageNum),
        [id |-> id, type |-> tool,
         color |-> IF tool = "underline" THEN UNDERLINE_RED ELSE color,
         coordinates |-> [startX |-> RMin(startX, endX), startY |-> RMin(startY, endY),
                          endX |-> RMax(startX, endX), endY |-> RMax(startY, endY)],
         path |-> <<>>, page |-> pageNum, content |-> ""]))

\* path is not empty here: the caller passes a stroke of at least 2 points.
createDrawAnnotation(store, pageNum, path, color, id) ==
    LET boundingBox == calculateBoundingBox(path)
    IN  WithPage(store, pageNum, Append(PageList(store, pageNum),
            [id |-> id, type |-> "draw", color |-> color,
             coordinates |-> [startX |-> boundingBox.minX, startY |-> boundingBox.minY,
                              endX |-> boundingBox.maxX, endY |-> boundingBox.maxY],
             path |-> path, page |-> pageNum, content |-> ""]))

\* viewport is document.querySelector('.interaction-layer').viewport.
createNoteAnnotation(store, pageNum, normalizedX, normalizedY, viewport, id) ==
    LET noteWidth == IF viewport = Null THEN <<1, 50>> ELSE RDiv(RInt(NoteSize), viewport.width)
        noteHeight == IF viewport = Null THEN <<1, 50>> ELSE RDiv(RInt(NoteSize), viewport.height)
    IN  WithPage(store, pageNum, Append(PageList(store, pageNum),
            [id |-> id, type |-> "note", color |-> NOTE_BACKGROUND,
             coordinates |-> [startX |-> normalizedX, startY |-> normalizedY,
                              endX |-> RAdd(normalizedX, noteWidth),
                              endY |-> RAdd(normalizedY, noteHeight)],
             path |-> <<>>, page |-> pageNum, content |-> ""]))

\* A deletion that empties the page that holds the record.
deleteAnnotation_wholePage(store, annotationId, currentPage, canvas) ==
    LET holders == {q \in DOMAIN store : IndexOf(store[q], annotationId) # 0}
    IN  IF holders = {} THEN [found |-> FALSE, threw |-> FALSE, store |-> store]
        ELSE [found |-> TRUE, threw |-> FALSE,
              store |-> [q \in DOMAIN store |-> IF q \in holders THEN <<>> ELSE store[q]]]

\* deleteAnnotation(annotationId) up to its forEach: the record is spliced out
\* of the page that holds it and, when that page is the displayed one, the
\* page is rendered again with a null viewport.  The function has no return
\* statement.
deleteAnnotation(store, annotationId, currentPage, canvas) ==
    LET holders == {q \in DOMAIN store : IndexOf(store[q], annotationId) # 0}
    IN  IF holders = {} THEN [found |-> FALSE, threw |-> FALSE, store |-> store]
        ELSE LET q == CHOOSE h \in holders : TRUE
                 store1 == [store EXCEPT ![q] = RemoveAt(store[q], IndexOf(store[q], annotationId))]
             IN  [found |-> TRUE,
                  threw |-> q = currentPage /\ canvas
                            /\ renderAnnotations(store1, q, Null).threw,
                  store |-> store1]

(***************************************************************************)
(* InteractionController: the handlers of setupPageInteractions.           *)
(***************************************************************************)
setTool(tool) ==
    /\ currentTool' = tool
    /\ lastCall' = Quiet
    /\ UNCHANGED <<annotations, currentColor, thisIsDrawing, currentStroke, layer, pdf,
                   renderPc, zoomPending, nextId, listed, pendingEditor, gesture, probe, surface>>

setColor(color) ==
    /\ currentColor' = color
    /\ lastCall' = Quiet
    /\ UNCHANGED <<annotations, currentTool, thisIsDrawing, currentStroke, layer, pdf,
                   renderPc, zoomPending, nextId, listed, pendingEditor, gesture, probe, surface>>

DeviceBox(x1, y1, x2, y2) ==
    [minX |-> RMin(x1, x2), minY |-> RMin(y1, y2), maxX |-> RMax(x1, x2), maxY |-> RMax(y1, y2)]

Remember(id, box, viewport) ==
    [i \in DOMAIN gesture \cup {id} |->
        IF i = id THEN [box |-> box, viewport |-> viewport] ELSE gesture[i]]

\* The history keeps the gestures of the records that are still in the store.
Forget(store) == [i \in DOMAIN gesture \cap Ids(store) |-> gesture[i]]

MouseDown(p) ==
    /\ layer.listening
    /\ IF currentTool = "select"
       THEN /\ lastCall' = Quiet
            /\ UNCHANGED <<annotations, thisIsDrawing, currentStroke, layer, listed, gesture,
                           surface>>
       ELSE IF currentTool = "eraser"
       THEN LET hit == getAnnotationAtPoint(PageList(annotations, pdf.currentPage),
                                            p.x, p.y, layer.viewport)
                store0 == PutBack(annotations, pdf.currentPage, hit.list)
                del == deleteAnnotation(store0, hit.list[hit.index].id,
                                        pdf.currentPage, layer.mounted)
            IN  /\ IF hit.index = 0
                   THEN /\ annotations' = store0
                        /\ lastCall' = [Returned("mousedown") EXCEPT !.at = p]
                        /\ UNCHANGED <<listed, gesture, surface>>
                   ELSE IF del.threw
                   THEN /\ annotations' = del.store
                        /\ lastCall' = [Deleted("mousedown", del) EXCEPT !.at = p]
                        /\ gesture' = Forget(del.store)
                        /\ surface' = Painted(surface, annotations', pdf.currentPage, Null)
                        /\ UNCHANGED listed
                   ELSE /\ annotations' =
                              renderAnnotations(del.store, pdf.currentPage, layer.viewport).store
                        /\ lastCall' = [Deleted("mousedown", del) EXCEPT !.at = p]
                        /\ gesture' = Forget(del.store)
                        /\ listed' = Ids(del.store)
                        /\ surface' = Painted(surface, annotations', pdf.currentPage,
                                              layer.viewport)
                /\ UNCHANGED <<thisIsDrawing, currentStroke, layer>>
       ELSE /\ layer' = [layer EXCEPT !.isDrawing = TRUE, !.start = p]
            /\ IF currentTool = "draw"
               THEN currentStroke' = Stroke(<<p>>) /\ thisIsDrawing' = TRUE
               ELSE UNCHANGED <<currentStroke, thisIsDrawing>>
            /\ lastCall' = Quiet
            /\ UNCHANGED <<annotations, listed, gesture, surface>>
    /\ UNCHANGED <<currentTool, currentColor, pdf, renderPc, zoomPending, nextId,
                   pendingEditor, probe>>

MouseMove(p) ==
    /\ layer.listening
    /\ IF currentTool = "eraser"
       THEN LET hit == getAnnotationAtPoint(PageList(annotations, pdf.currentPage),
                                            p.x, p.y, layer.viewport)
                store0 == PutBack(annotations, pdf.currentPage, hit.list)
            IN  /\ annotations' =
                      renderAnnotations(store0, pdf.currentPage, layer.viewport).store
                /\ surface' = Painted(surface, annotations', pdf.currentPage, layer.viewport)
                /\ lastCall' = Quiet
                /\ UNCHANGED currentStroke
       ELSE IF ~layer.isDrawing \/ currentTool = "select"
       THEN /\ lastCall' = Quiet
            /\ UNCHANGED <<annotations, currentStroke, surface>>
       ELSE IF currentTool = "draw" /\ currentStroke.null
       THEN /\ lastCall' = Threw("mousemove")
            /\ UNCHANGED <<annotations, currentStroke, surface>>
       ELSE /\ IF currentTool = "draw"
               THEN /\ Len(currentStroke.points) < MaxStroke
                    /\ currentStroke' = Stroke(Append(currentStroke.points, p))
               ELSE UNCHANGED currentStroke
            /\ annotations' =
                  renderAnnotations(annotations, pdf.currentPage, layer.viewport).store
            /\ surface' = Painted(surface, annotations', pdf.currentPage, layer.viewport)
            /\ lastCall' = Quiet
    /\ UNCHANGED <<currentTool, currentColor, thisIsDrawing, layer, pdf, renderPc,
                   zoomPending, nextId, listed, pendingEditor, gesture, probe>>

\* this.currentStroke && this.currentStroke.length > 1
StrokeCommits_onePoint(stroke) == ~stroke.null /\ Len(stroke.points) > 0

StrokeCommits(stroke) == ~stroke.null /\ Len(stroke.points) > 1

NormalizedStroke_newestFirst(points, viewport) ==
    [i \in 1..Len(points) |->
        canvasToNormalized(points[Len(points) + 1 - i].x, points[Len(points) + 1 - i].y,
                           viewport)]

NormalizedStroke(points, viewport) ==
    [i \in 1..Len(points) |-> canvasToNormalized(points[i].x, points[i].y, viewport)]

\* isDrawing = false.  startX and startY keep their values in the code; they
\* are not read again before the next mousedown assigns them, so the model
\* resets them.
Released(l) == [l EXCEPT !.isDrawing = FALSE, !.start = NoLayer.start]

\* Utils.generateId: Date.now() followed by the base-36 digits that
\* Math.random().toString(36).substr(2, 9) returns.  now is the reading of
\* the clock and random the number those digits spell; the concatenation
\* is the pairing of the two.
DigitSpace == 2

generateId(now, random) == now * DigitSpace + random

\* The release handler (mouseup), for the identifier generateId returns.
MouseUpWith(p, id) ==
    /\ layer.listening
    /\ IF ~layer.isDrawing \/ currentTool \in {"select", "eraser"}
       THEN /\ lastCall' = Quiet
            /\ UNCHANGED <<annotations, thisIsDrawing, currentStroke, layer, nextId,
                           listed, gesture, surface>>
       ELSE IF currentTool = "draw"
       THEN /\ thisIsDrawing' = FALSE
            /\ currentStroke' = NullStroke
            /\ layer' = Released(layer)
            /\ IF StrokeCommits(currentStroke)
               THEN LET path == NormalizedStroke(currentStroke.points, layer.viewport)
                        store1 == createDrawAnnotation(annotations, pdf.currentPage, path,
                                                       currentColor, id)
                    IN  /\ nextId < MaxId
                        /\ nextId' = nextId + 1
                        /\ annotations' =
                              renderAnnotations(store1, pdf.currentPage, layer.viewport).store
                        /\ surface' = Painted(surface, annotations', pdf.currentPage,
                                              layer.viewport)
                        /\ listed' = Ids(store1)
                        /\ gesture' = Remember(id,
                                               calculateBoundingBox(currentStroke.points),
                                               layer.viewport)
                        /\ lastCall' = Made("mouseup", id)
               ELSE /\ annotations' =
                          renderAnnotations(annotations, pdf.currentPage, layer.viewport).store
                    /\ surface' = Painted(surface, annotations', pdf.currentPage,
                                          layer.viewport)
                    /\ lastCall' = Returned("mouseup")
                    /\ UNCHANGED <<nextId, listed, gesture>>
       ELSE LET normalizedCoords == canvasToNormalized(layer.start.x, layer.start.y, layer.viewport)
                normalizedCoords2 == canvasToNormalized(p.x, p.y, layer.viewport)
                store1 == createAnnotation(annotations, pdf.currentPage,
                                           normalizedCoords.x, normalizedCoords.y,
                                           normalizedCoords2.x, normalizedCoords2.y,
                                           currentTool, currentColor, id)
            IN  /\ nextId < MaxId
                /\ nextId' = nextId + 1
                /\ layer' = Released(layer)
                /\ annotations' =
                      renderAnnotations(store1, pdf.currentPage, layer.viewport).store
                /\ surface' = Painted(surface, annotations', pdf.currentPage, layer.viewport)
                /\ listed' = Ids(store1)
                /\ gesture' = Remember(id,
                                       DeviceBox(layer.start.x, layer.start.y, p.x, p.y),
                                       layer.viewport)
                /\ lastCall' = Made("mouseup", id)
                /\ UNCHANGED <<thisIsDrawing, currentStroke>>
    /\ UNCHANGED <<currentTool, currentColor, pdf, renderPc, zoomPending, pendingEditor, probe>>

\* The specifications that do not concern identifiers take the k-th call of
\* generateId to return k: every call reads a later clock.
MouseUp(p) == MouseUpWith(p, nextId + 1)

\* The dblclick handler, for the identifier generateId returns.
DblClickWith(p, id) ==
    /\ layer.listening
    /\ IF currentTool = "note"
       THEN LET normalizedCoords == canvasToNormalized(p.x, p.y, layer.viewport)
                store1 == createNoteAnnotation(annotations, pdf.currentPage,
                                               normalizedCoords.x, normalizedCoords.y,
                                               layer.viewport, id)
            IN  /\ nextId < MaxId
                /\ nextId' = nextId + 1
                /\ annotations' = store1
                /\ listed' = Ids(store1)
                /\ pendingEditor' = pendingEditor \cup {[id |-> id, page |-> pdf.currentPage]}
                /\ gesture' = Remember(id,
                                       [minX |-> p.x, minY |-> p.y,
                                        maxX |-> RAdd(p.x, RInt(NoteSize)),
                                        maxY |-> RAdd(p.y, RInt(NoteSize))],
                                       layer.viewport)
                /\ lastCall' = Made("dblclick", id)
       ELSE /\ lastCall' = Quiet
            /\ UNCHANGED <<annotations, nextId, listed, pendingEditor, gesture>>
    /\ UNCHANGED <<currentTool, currentColor, thisIsDrawing, currentStroke, layer, pdf,
                   renderPc, zoomPending, probe, surface>>

DblClick(p) == DblClickWith(p, nextId + 1)

\* openNoteEditor(annotation), called by the timer that createNoteAnnotation
\* sets: content is what prompt returns, "null" when it is cancelled.  The
\* record may have been deleted since; the page is rendered again with a
\* null viewport.
SetContent(store, id, content) ==
    [q \in DOMAIN store |->
        [i \in 1..Len(store[q]) |->
            IF store[q][i].id = id THEN [store[q][i] EXCEPT !.content = content]
            ELSE store[q][i]]]

openNoteEditor(e, content) ==
    /\ e \in pendingEditor
    /\ pendingEditor' = pendingEditor \ {e}
    /\ IF content = "null"
       THEN /\ lastCall' = Returned("openNoteEditor")
            /\ UNCHANGED <<annotations, listed, surface>>
       ELSE LET store1 == SetContent(annotations, e.id, content)
                r == renderAnnotations(store1, e.page, Null)
            IN  /\ annotations' = store1
                /\ listed' = Ids(store1)
                /\ surface' = IF layer.mounted THEN Painted(surface, annotations', e.page, Null)
                               ELSE surface
                /\ lastCall' = IF layer.mounted /\ r.threw
                               THEN Threw("openNoteEditor")
                               ELSE Returned("openNoteEditor")
    /\ UNCHANGED <<currentTool, currentColor, thisIsDrawing, currentStroke, layer, pdf,
                   renderPc, zoomPending, nextId, gesture, probe>>

\* The delete button of a sidebar item (createAnnotationListItem).
DeleteClick(id) ==
    /\ id \in listed
    /\ LET del == deleteAnnotation(annotations, id, pdf.currentPage, layer.mounted)
       IN  /\ annotations' = del.store
           /\ listed' = IF del.threw THEN listed ELSE Ids(del.store)
           /\ lastCall' = Deleted("deleteAnnotation", del)
           /\ gesture' = Forget(del.store)
           /\ surface' = IF layer.mounted
                             /\ IndexOf(PageList(annotations, pdf.currentPage), id) # 0
                          THEN Painted(surface, annotations', pdf.currentPage, Null)
                          ELSE surface
    /\ UNCHANGED <<currentTool, currentColor, thisIsDrawing, currentStroke, layer, pdf,
                   renderPc, zoomPending, nextId, pendingEditor, probe>>

(***************************************************************************)
(* Export and import.  A file is what JSON.stringify wrote: the Map of the *)
(* store becomes the array of its [pageKey, records] entries (exportAll,   *)
(* saveSession) or one flat array of records that carry their page         *)
(* (exportAnnotations).  probe holds the file the user has at hand; its    *)
(* field of is history, the store the file was written from.               *)
(***************************************************************************)
\* `page_${pageNum}` and parseInt(pageKey.replace('page_', '')).
pageKey(pageNum) == <<"page_", pageNum>>

pageOfKey(key) == key[2]

\* Entries for the pages that hold a record only.
RECURSIVE entries_nonEmpty(_, _)
entries_nonEmpty(store, pages) ==
    IF pages = {} THEN <<>>
    ELSE LET q == CHOOSE n \in pages : \A m \in pages : n <= m
         IN  (IF Len(store[q]) = 0 THEN <<>> ELSE <<<<pageKey(q), store[q]>>>>)
                 \o entries_nonEmpty(store, pages \ {q})

\* Array.from(this.annotations.entries()), pages in ascending order.
RECURSIVE entries(_, _)
entries(store, pages) ==
    IF pages = {} THEN <<>>
    ELSE LET q == CHOOSE n \in pages : \A m \in pages : n <= m
         IN  <<<<pageKey(q), store[q]>>>> \o entries(store, pages \ {q})

\* new Map(data.annotations): a later entry with the same key replaces an
\* earlier one.
MapOf(array) ==
    [q \in {pageOfKey(array[i][1]) : i \in 1..Len(array)} |->
        LET last == CHOOSE i \in 1..Len(array) :
                        /\ pageOfKey(array[i][1]) = q
                        /\ \A j \in (i + 1)..Len(array) : pageOfKey(array[j][1]) # q
        IN  array[last][2]]

\* The records of all pages in one array, each with page set from its key.
RECURSIVE flat(_, _)
flat(store, pages) ==
    IF pages = {} THEN <<>>
    ELSE LET q == CHOOSE n \in pages : \A m \in pages : n <= m
         IN  [i \in 1..Len(store[q]) |-> [store[q][i] EXCEPT !.page = q]]
                 \o flat(store, pages \ {q})

File(exportType, array, store) ==
    [kind |-> "file", exportType |-> exportType, annotations |-> array, of |-> store]

\* The annotations.json of exportAnnotations has no exportType.
exportAnnotationsFile(store) == File("undefined", flat(store, DOMAIN store), store)

exportAllFile(store) == File("complete", entries(store, DOMAIN store), store)

\* PDFEditor.exportAll: nothing is written unless a document is loaded.
exportAll ==
    /\ pdf.pdfDoc
    /\ probe' = exportAllFile(annotations)
    /\ lastCall' = Returned("exportAll")
    /\ UNCHANGED <<annotations, currentTool, currentColor, thisIsDrawing, currentStroke,
                   layer, pdf, renderPc, zoomPending, nextId, listed, pendingEditor, gesture,
                   surface>>

exportAnnotations ==
    /\ probe' = exportAnnotationsFile(annotations)
    /\ lastCall' = Returned("exportAnnotations")
    /\ UNCHANGED <<annotations, currentTool, currentColor, thisIsDrawing, currentStroke,
                   layer, pdf, renderPc, zoomPending, nextId, listed, pendingEditor, gesture,
                   surface>>

\* PDFEditor.importData(file): a file that is not a complete export is
\* rejected ('Invalid import file format', caught and notified); otherwise
\* the store is replaced by the Map of the file's entries and the sidebar
\* is rebuilt.  No page is rendered.
importData ==
    /\ probe.kind = "file"
    /\ IF probe.exportType = "complete"
       THEN LET store1 == MapOf(probe.annotations)
            IN  /\ annotations' = store1
                /\ listed' = Ids(store1)
                /\ gesture' = Forget(store1)
                /\ lastCall' = [Returned("importData") EXCEPT !.ret = "imported"]
       ELSE /\ lastCall' = [Returned("importData") EXCEPT !.ret = "rejected"]
            /\ UNCHANGED <<annotations, listed, gesture>>
    /\ UNCHANGED <<currentTool, currentColor, thisIsDrawing, currentStroke, layer, pdf,
                   renderPc, zoomPending, nextId, pendingEditor, probe, surface>>

\* A clear that drops the entry of the first page only.
clear_firstPage(store) ==
    [q \in {n \in DOMAIN store : \E m \in DOMAIN store : m < n} |-> store[q]]

\* this.annotations.clear()
clear(store) == <<>>

\* clearAnnotations(): confirmed is what the confirm dialog returns.
clearAnnotations(confirmed) ==
    /\ IF confirmed
       THEN /\ annotations' = clear(annotations)
            /\ listed' = Ids(clear(annotations))
            /\ gesture' = Forget(clear(annotations))
            /\ surface' = IF layer.mounted THEN Cleared(surface) ELSE surface
            /\ lastCall' = [Returned("clearAnnotations") EXCEPT !.ret = "confirmed"]
       ELSE /\ lastCall' = [Returned("clearAnnotations") EXCEPT !.ret = "declined"]
            /\ UNCHANGED <<annotations, listed, gesture, surface>>
    /\ UNCHANGED <<currentTool, currentColor, thisIsDrawing, currentStroke, layer, pdf,
                   renderPc, zoomPending, nextId, pendingEditor, probe>>

(***************************************************************************)
(* getAnnotationStats.                                                     *)
(***************************************************************************)
\* stats.byType[type] = 1
Bump_reset(byType, type) ==
    [k \in DOMAIN byType \cup {type} |-> IF k = type THEN 1 ELSE byType[k]]

\* stats.byType[type] = (stats.byType[type] || 0) + 1
Bump(byType, type) ==
    [k \in DOMAIN byType \cup {type} |->
        IF k = type THEN (IF type \in DOMAIN byType THEN byType[type] ELSE 0) + 1
        ELSE byType[k]]

\* pageAnnotations.forEach(annotation => ...)
RECURSIVE countTypes(_, _, _)
countTypes(pageAnnotations, i, byType) ==
    IF i > Len(pageAnnotations) THEN byType
    ELSE countTypes(pageAnnotations, i + 1, Bump(byType, pageAnnotations[i].type))

\* this.annotations.forEach((pageAnnotations, pageKey) => ...)
RECURSIVE statsOver(_, _, _)
statsOver(store, pages, stats) ==
    IF pages = {} THEN stats
    ELSE LET q == CHOOSE n \in pages : \A m \in pages : n <= m
             pageNum == pageOfKey(pageKey(q))
         IN  statsOver(store, pages \ {q},
                 [total |-> stats.total + Len(store[q]),
                  byType |-> countTypes(store[q], 1, stats.byType),
                  byPage |-> [n \in DOMAIN stats.byPage \cup {pageNum} |->
                                 IF n = pageNum THEN Len(store[q]) ELSE stats.byPage[n]]])

getAnnotationStats(store) ==
    statsOver(store, DOMAIN store, [total |-> 0, byType |-> <<>>, byPage |-> <<>>])

(***************************************************************************)
(* PDFManager: loadPDF, renderPage and the requests that call it.          *)
(***************************************************************************)
\* The synchronous head of renderPage(pageNum), up to its first await.
StartRender(p, pageNum) ==
    IF p.isRendering \/ ~p.pdfDoc \/ pageNum \notin Pages
    THEN /\ pdf' = p
         /\ UNCHANGED renderPc
    ELSE /\ pdf' = [p EXCEPT !.isRendering = TRUE, !.currentPage = pageNum]
         /\ renderPc' = "getPage"

loadPDF ==
    /\ ~pdf.pdfDoc
    /\ StartRender([pdf EXCEPT !.pdfDoc = TRUE, !.rotation = 0], 1)
    /\ lastCall' = Quiet
    /\ UNCHANGED <<annotations, currentTool, currentColor, thisIsDrawing, currentStroke,
                   layer, zoomPending, nextId, listed, pendingEditor, gesture, probe, surface>>

\* getPage has resolved: the viewport is computed from the scale and rotation
\* of this moment, the container is cleared and the new page elements are
\* created; the new layer has no handlers yet.
RenderGotPage ==
    /\ renderPc = "getPage"
    /\ renderPc' = "render"
    /\ layer' = [NoLayer EXCEPT !.mounted = TRUE, !.next = getViewport(pdf.scale, pdf.rotation)]
    /\ surface' = IF surface.watched THEN Blank(pdf.currentPage) ELSE surface
    /\ lastCall' = Quiet
    /\ UNCHANGED <<annotations, currentTool, currentColor, thisIsDrawing, currentStroke,
                   pdf, zoomPending, nextId, listed, pendingEditor, gesture, probe>>

\* page.render has resolved: setupPageInteractions, renderAnnotations, and
\* the finally block (the render queue is always empty: nothing calls
\* queuePageRender).
RenderPainted ==
    /\ renderPc = "render"
    /\ renderPc' = "idle"
    /\ layer' = [layer EXCEPT !.listening = TRUE, !.viewport = layer.next, !.isDrawing = FALSE]
    /\ annotations' = renderAnnotations(annotations, pdf.currentPage, layer.next).store
    /\ surface' = Painted(surface, annotations', pdf.currentPage, layer.next)
    /\ pdf' = [pdf EXCEPT !.isRendering = FALSE]
    /\ lastCall' = Quiet
    /\ UNCHANGED <<currentTool, currentColor, thisIsDrawing, currentStroke, zoomPending,
                   nextId, listed, pendingEditor, gesture, probe>>

goToPageNumber(pageNum) ==
    /\ pdf.pdfDoc
    /\ IF pageNum # pdf.currentPage
       THEN StartRender(pdf, pageNum)
       ELSE UNCHANGED <<pdf, renderPc>>
    /\ lastCall' = Quiet
    /\ UNCHANGED <<annotations, currentTool, currentColor, thisIsDrawing, currentStroke,
                   layer, zoomPending, nextId, listed, pendingEditor, gesture, probe, surface>>

rotateLeft ==
    /\ pdf.pdfDoc
    /\ StartRender([pdf EXCEPT !.rotation = (pdf.rotation + 270) % 360], pdf.currentPage)
    /\ lastCall' = Quiet
    /\ UNCHANGED <<annotations, currentTool, currentColor, thisIsDrawing, currentStroke,
                   layer, zoomPending, nextId, listed, pendingEditor, gesture, probe, surface>>

rotateRight ==
    /\ pdf.pdfDoc
    /\ StartRender([pdf EXCEPT !.rotation = (pdf.rotation + 90) % 360], pdf.currentPage)
    /\ lastCall' = Quiet
    /\ UNCHANGED <<annotations, currentTool, currentColor, thisIsDrawing, currentStroke,
                   layer, zoomPending, nextId, listed, pendingEditor, gesture, probe, surface>>

\* setZoom(newScale) up to its await of updateZoomUI.
setZoom(newScale) ==
    /\ pdf.pdfDoc
    /\ ~zoomPending
    /\ pdf' = [pdf EXCEPT !.scale = newScale]
    /\ zoomPending' = TRUE
    /\ lastCall' = Quiet
    /\ UNCHANGED <<annotations, currentTool, currentColor, thisIsDrawing, currentStroke,
                   layer, renderPc, nextId, listed, pendingEditor, gesture, probe, surface>>

\* setZoom after updateZoomUI: renderPage(this.currentPage).
setZoomRender ==
    /\ zoomPending
    /\ zoomPending' = FALSE
    /\ StartRender(pdf, pdf.currentPage)
    /\ lastCall' = Quiet
    /\ UNCHANGED <<annotations, currentTool, currentColor, thisIsDrawing, currentStroke,
                   layer, nextId, listed, pendingEditor, gesture, probe, surface>>

\* Pointer positions of the specifications: two opposite quarter points, or
\* all four.
Diagonal(viewport) == {p \in PointerPoints(viewport) : p.x[1] * viewport.height[1] * p.y[2] * viewport.width[2]
                                                      = p.y[1] * viewport.width[1] * p.x[2] * viewport.height[2]}

(***************************************************************************)
(* binary64, the arithmetic of JavaScript numbers.  A positive number is   *)
(* [e, m]: m is its significand of Precision bits, most significant first  *)
(* (m[1] = 1), and e the exponent of m[1]; zero is F64Zero.  Only the      *)
(* normal range is modelled, and only the two operations of the            *)
(* coordinate transformer, on integer device coordinates and integer       *)
(* viewport sizes.                                                         *)
(***************************************************************************)
Precision == 53

F64Zero == [e |-> 0, m |-> <<>>]

RECURSIVE Bits(_)
Bits(n) == IF n = 0 THEN <<>> ELSE Append(Bits(n \div 2), n % 2)

Zeros(k) == [i \in 1..k |-> 0]

\* The significand plus one unit in its last place: the carry is 1 when it
\* was all ones.
RECURSIVE Increment(_, _)
Increment(m, i) ==
    IF i = 0 THEN [carry |-> 1, m |-> m]
    ELSE IF m[i] = 0 THEN [carry |-> 0, m |-> [m EXCEPT ![i] = 1]]
    ELSE Increment([m EXCEPT ![i] = 0], i - 1)

\* Round to nearest, ties to even: bits is the exact significand, of at least
\* Precision bits, and sticky says that the exact value has non-zero bits
\* after them.
F64Round(e, bits, sticky) ==
    LET m == SubSeq(bits, 1, Precision)
        rest == SubSeq(bits, Precision + 1, Len(bits))
        half == Len(rest) > 0 /\ rest[1] = 1
        below == sticky \/ \E i \in 2..Len(rest) : rest[i] = 1
        up == half /\ (below \/ m[Precision] = 1)
        inc == Increment(m, Precision)
    IN  IF ~up THEN [e |-> e, m |-> m]
        ELSE IF inc.carry = 1 THEN [e |-> e + 1, m |-> <<1>> \o Zeros(Precision - 1)]
        ELSE [e |-> e, m |-> inc.m]

\* The number n, an integer below 2^Precision.
F64FromInt(n) ==
    IF n = 0 THEN F64Zero
    ELSE LET b == Bits(n)
         IN  [e |-> Len(b) - 1, m |-> b \o Zeros(Precision - Len(b))]

\* Long division: k more bits of the quotient of rem / d (rem < d).
RECURSIVE DivBits(_, _, _, _)
DivBits(rem, d, k, acc) ==
    IF k = 0 THEN [bits |-> acc, rem |-> rem]
    ELSE IF 2 * rem >= d THEN DivBits(2 * rem - d, d, k - 1, Append(acc, 1))
    ELSE DivBits(2 * rem, d, k - 1, Append(acc, 0))

RECURSIVE Log2(_)
Log2(n) == IF n < 2 THEN 0 ELSE 1 + Log2(n \div 2)

RECURSIVE Pow2(_)
Pow2(k) == IF k = 0 THEN 1 ELSE 2 * Pow2(k - 1)

\* x / w in binary64, for integers x >= 0 and w > 0: the numerator and the
\* denominator are brought to the same bit length, the quotient bits come
\* from long division and the result is rounded once.
F64DivInt(x, w) ==
    IF x = 0 THEN F64Zero
    ELSE LET lx == Log2(x)
             lw == Log2(w)
             n == x * Pow2(IF lw > lx THEN lw - lx ELSE 0)
             d == w * Pow2(IF lx > lw THEN lx - lw ELSE 0)
             e == IF n >= d THEN lx - lw ELSE lx - lw - 1
             rem == IF n >= d THEN n - d ELSE 2 * n - d
             q == DivBits(rem, d, Precision, <<1>>)
         IN  F64Round(e, q.bits, q.rem # 0)

\* The exact product of a significand and a positive integer, as bits.
RECURSIVE MulBits(_, _, _, _, _)
MulBits(m, i, carry, w, acc) ==
    IF i = 0 THEN Bits(carry) \o acc
    ELSE MulBits(m, i - 1, (m[i] * w + carry) \div 2, w, <<(m[i] * w + carry) % 2>> \o acc)

\* f * w in binary64, for a binary64 f >= 0 and an integer w > 0.
F64MulInt(f, w) ==
    IF f = F64Zero THEN F64Zero
    ELSE LET bits == MulBits(f.m, Precision, 0, w, <<>>)
         IN  F64Round(f.e + Len(bits) - Precision, bits, FALSE)

RECURSIVE Decrement(_, _)
Decrement(m, i) ==
    IF m[i] = 1 THEN [m EXCEPT ![i] = 0]
    ELSE Decrement([m EXCEPT ![i] = 1], i - 1)

\* The binary64 numbers next to a positive f.
F64Succ(f) ==
    LET inc == Increment(f.m, Precision)
    IN  IF inc.carry = 1 THEN [e |-> f.e + 1, m |-> <<1>> \o Zeros(Precision - 1)]
        ELSE [e |-> f.e, m |-> inc.m]

F64Pred(f) ==
    IF f.m = <<1>> \o Zeros(Precision - 1)
    THEN [e |-> f.e - 1, m |-> [i \in 1..Precision |-> 1]]
    ELSE [e |-> f.e, m |-> Decrement(f.m, Precision)]


\* canvasToNormalized and normalizedToCanvas as JavaScript computes them; the
\* viewport has an integer width and height here.
canvasToNormalizedF64(x, y, viewport) ==
    Pt(F64DivInt(x, viewport.width), F64DivInt(y, viewport.height))

normalizedToCanvasF64_swapped(normalizedX, normalizedY, viewport) ==
    Pt(F64MulInt(normalizedX, viewport.height), F64MulInt(normalizedY, viewport.width))

normalizedToCanvasF64(normalizedX, normalizedY, viewport) ==
    Pt(F64MulInt(normalizedX, viewport.width), F64MulInt(normalizedY, viewport.height))

(***************************************************************************)
(* Specifications.  Each one is the machine above driven by the inputs it  *)
(* names: the tools that can be selected and the pointer positions.        *)
(***************************************************************************)
\* Boxes and notes are made, erased and deleted from the sidebar on a
\* two-page document at the default zoom.
StoreTools == {"highlight", "note", "eraser"}

\* The pointer stays on one point of the page.
Corner(viewport) ==
    IF viewport = Null THEN {}
    ELSE {Pt(RMul(<<1, 4>>, viewport.width), RMul(<<1, 4>>, viewport.height))}

Next ==
    \/ loadPDF
    \/ RenderGotPage
    \/ RenderPainted
    \/ \E n \in Pages : goToPageNumber(n)
    \/ \E t \in StoreTools : setTool(t)
    \/ \E p \in Corner(layer.viewport) : MouseDown(p)
    \/ \E p \in Corner(layer.viewport) : MouseMove(p)
    \/ \E p \in Corner(layer.viewport) : MouseUp(p)
    \/ \E p \in Corner(layer.viewport) : DblClick(p)
    \/ \E e \in pendingEditor, c \in NoteTexts \cup {"null"} : openNoteEditor(e, c)
    \/ \E id \in listed : DeleteClick(id)

Spec == Init /\ [][Next]_vars

\* Strokes and boxes are drawn on the first page, with the tool changed at
\* any moment.
DrawTools == {"select", "highlight", "draw"}

NextDraw ==
    \/ loadPDF
    \/ RenderGotPage
    \/ RenderPainted
    \/ \E t \in DrawTools : setTool(t)
    \/ \E p \in Diagonal(layer.viewport) : MouseDown(p)
    \/ \E p \in Diagonal(layer.viewport) : MouseMove(p)
    \/ \E p \in Diagonal(layer.viewport) : MouseUp(p)

SpecDraw == Init /\ [][NextDraw]_vars

\* Boxes are dragged on the first page and the zoom is changed.  The three
\* box types go through the same code of createAnnotation and of the hit
\* test; one of them is dragged here.
BoxTypes == {"highlight", "underline", "strikethrough"}

BoxTools == {"underline"}

NextZoom ==
    \/ loadPDF
    \/ RenderGotPage
    \/ RenderPainted
    \/ \E sc \in Scales \cup {DefaultScale} : setZoom(sc)
    \/ setZoomRender
    \/ \E t \in BoxTools : setTool(t)
    \/ \E p \in Diagonal(layer.viewport) : MouseDown(p)
    \/ \E p \in Diagonal(layer.viewport) : MouseMove(p)
    \/ \E p \in Diagonal(layer.viewport) : MouseUp(p)

SpecZoom == Init /\ [][NextZoom]_vars

\* Boxes are dragged on the first page, between two points that do not lie
\* symmetrically on it, and the page is turned.
OffCentre(viewport) ==
    IF viewport = Null THEN {}
    ELSE {Pt(RMul(<<1, 4>>, viewport.width), RMul(<<1, 4>>, viewport.height)),
          Pt(RMul(<<1, 2>>, viewport.width), RMul(<<3, 4>>, viewport.height))}

NextRotate ==
    \/ loadPDF
    \/ RenderGotPage
    \/ RenderPainted
    \/ rotateLeft
    \/ rotateRight
    \/ setTool("highlight")
    \/ \E p \in OffCentre(layer.viewport) : MouseDown(p)
    \/ \E p \in OffCentre(layer.viewport) : MouseMove(p)
    \/ \E p \in OffCentre(layer.viewport) : MouseUp(p)

SpecRotate == Init /\ [][NextRotate]_vars

\* Strokes are drawn on the first page between any two quarter points.
NextStroke ==
    \/ loadPDF
    \/ RenderGotPage
    \/ RenderPainted
    \/ setTool("draw")
    \/ \E p \in PointerPoints(layer.viewport) : MouseDown(p)
    \/ \E p \in PointerPoints(layer.viewport) : MouseMove(p)
    \/ \E p \in PointerPoints(layer.viewport) : MouseUp(p)

SpecStroke == Init /\ [][NextStroke]_vars

\* Notes, boxes dragged with the note tool and strokes are made and erased
\* on the first page while the zoom drops to the smallest scale setZoom
\* accepts, where a new note is taken for a legacy record and migrated.
\* Every gesture runs from the three-quarter point back to the quarter
\* point.
TinyScale == <<1, 10>>

OrderTools == {"note", "draw", "eraser"}

Far(viewport) ==
    IF viewport = Null THEN {}
    ELSE {Pt(RMul(<<3, 4>>, viewport.width), RMul(<<3, 4>>, viewport.height))}

NextOrder ==
    \/ loadPDF
    \/ RenderGotPage
    \/ RenderPainted
    \/ setZoom(TinyScale)
    \/ setZoomRender
    \/ \E t \in OrderTools : setTool(t)
    \/ \E p \in Far(layer.viewport) : MouseDown(p)
    \/ \E p \in Corner(layer.viewport) : MouseMove(p)
    \/ \E p \in Corner(layer.viewport) : MouseUp(p)
    \/ \E p \in Far(layer.viewport) : DblClick(p)

SpecOrder == Init /\ [][NextOrder]_vars

(***************************************************************************)
(* Specifications of single functions.  The engine stays as constructed;   *)
(* probe holds the arguments the function is called with and, once it has  *)
(* been called, its result.                                                *)
(***************************************************************************)
\* The round trip of the coordinate transformer in binary64.
MaxPixel == 15

Sizes == {22, 25, 49, 64}

RoundTripInputs ==
    {[kind |-> "roundTrip", done |-> FALSE, p |-> Pt(x, y),
      viewport |-> [width |-> w, height |-> h],
      back |-> Pt(F64Zero, F64Zero)] :
        x \in 0..MaxPixel, y \in 0..MaxPixel, w \in Sizes, h \in Sizes}

RoundTrip ==
    /\ probe.kind = "roundTrip"
    /\ ~probe.done
    /\ LET n == canvasToNormalizedF64(probe.p.x, probe.p.y, probe.viewport)
       IN  probe' = [probe EXCEPT !.done = TRUE,
                                  !.back = normalizedToCanvasF64(n.x, n.y, probe.viewport)]
    /\ UNCHANGED engine

InitRoundTrip == Constructed /\ probe \in RoundTripInputs

SpecRoundTrip == InitRoundTrip /\ [][RoundTrip]_vars

\* Records as a session file or an import holds them: normalized ones, and
\* legacy ones in the device pixels of the viewport they were made under.
Box(x1, y1, x2, y2) == [startX |-> x1, startY |-> y1, endX |-> x2, endY |-> y2]

Scaled(f, g, viewport) == Pt(RMul(f, viewport.width), RMul(g, viewport.height))

StoredRecord(id, type, coordinates) ==
    [id |-> id, type |-> type,
     color |-> IF type = "note" THEN NOTE_BACKGROUND ELSE DEFAULT_COLOR,
     coordinates |-> coordinates,
     path |-> IF type = "draw"
              THEN <<Pt(coordinates.startX, coordinates.startY),
                     Pt(coordinates.endX, coordinates.endY)>>
              ELSE <<>>,
     page |-> 1, content |-> ""]

\* The box from (f1, g1) to (f2, g2) of the page in the pixels of a viewport.
PixelBox(f1, g1, f2, g2, viewport) ==
    Box(Scaled(f1, g1, viewport).x, Scaled(f1, g1, viewport).y,
        Scaled(f2, g2, viewport).x, Scaled(f2, g2, viewport).y)

ViewScales == {<<1, 2>>, DefaultScale, <<2, 1>>, <<3, 1>>}

Viewports == {getViewport(sc, 0) : sc \in ViewScales}

StoredBoxes ==
    {Box(<<1, 4>>, <<1, 4>>, <<3, 4>>, <<3, 4>>)}
        \cup {PixelBox(<<1, 4>>, <<1, 4>>, <<3, 4>>, <<3, 4>>, v) : v \in Viewports}
        \cup {PixelBox(<<1, 2>>, <<1, 2>>, <<1, 1>>, <<1, 1>>, v) : v \in Viewports}

MigrateInputs ==
    {[kind |-> "migrate", calls |-> 0, viewport |-> v,
      record |-> StoredRecord(1, t, c), once |-> StoredRecord(1, t, c)] :
        v \in Viewports \cup {Null}, t \in {"highlight", "draw", "note"}, c \in StoredBoxes}

\* One more call of migratePixelToNormalized on the same record object, as
\* each render and each hit test makes; once is the record after the first.
Migrate ==
    /\ probe.kind = "migrate"
    /\ probe.calls < 2
    /\ LET migrated == migratePixelToNormalized(probe.record, probe.viewport)
       IN  probe' = [probe EXCEPT !.calls = probe.calls + 1,
                                  !.record = migrated,
                                  !.once = IF probe.calls = 0 THEN migrated ELSE probe.once]
    /\ UNCHANGED engine

InitMigrate == Constructed /\ probe \in MigrateInputs

SpecMigrate == InitMigrate /\ [][Migrate]_vars

\* The points at which the hit test is compared: a grid over the viewport.
GridFractions == {<<0, 1>>, <<1, 4>>, <<1, 2>>, <<1, 1>>}

\* The records a page can hold for the hit test: two boxes that overlap, a
\* note, a stroke along the diagonal and a legacy box in pixels.
NoteRecord(id, f, g, viewport) ==
    Records(createNoteAnnotation(<<>>, 1, f, g, viewport, id))

HitPool ==
    {StoredRecord(1, "highlight", Box(<<1, 4>>, <<1, 4>>, <<3, 4>>, <<3, 4>>)),
     StoredRecord(2, "underline", Box(<<1, 2>>, <<1, 2>>, <<1, 1>>, <<1, 1>>)),
     StoredRecord(4, "draw", Box(<<1, 4>>, <<1, 4>>, <<3, 4>>, <<3, 4>>)),
     StoredRecord(5, "strikethrough",
                  PixelBox(<<1, 4>>, <<1, 4>>, <<3, 4>>, <<3, 4>>, getViewport(<<3, 1>>, 0)))}
        \cup NoteRecord(3, <<1, 2>>, <<1, 2>>, getViewport(DefaultScale, 0))

MaxPage == 3

PageSequences ==
    {q \in UNION {[1..n -> HitPool] : n \in 0..MaxPage} :
        \A i, j \in 1..Len(q) : i # j => q[i] # q[j]}

HitInputs ==
    {[kind |-> "hit", done |-> FALSE, pageAnnotations |-> q, viewport |-> v,
      x |-> pt.x, y |-> pt.y, index |-> 0] :
        q \in PageSequences, v \in {getViewport(DefaultScale, 0), getViewport(<<2, 1>>, 0)},
        pt \in {Scaled(f, f, getViewport(DefaultScale, 0)) : f \in GridFractions}}

\* getAnnotationAtPoint(x, y, pageNum, viewport) on a page that holds
\* pageAnnotations: the candidates it examines are migrated in place.
HitAt ==
    /\ probe.kind = "hit"
    /\ ~probe.done
    /\ LET hit == getAnnotationAtPoint(probe.pageAnnotations, probe.x, probe.y, probe.viewport)
       IN  probe' = [probe EXCEPT !.done = TRUE, !.index = hit.index,
                                  !.pageAnnotations = hit.list]
    /\ UNCHANGED engine

InitHit == Constructed /\ probe \in HitInputs

SpecHit == InitHit /\ [][HitAt]_vars

\* A note as createNoteAnnotation made it at (f, g) under one viewport, or as
\* a drag with the note tool made it, tested under another viewport at the
\* device point (dx, dy) away from its anchor; after is the record as the
\* hit test leaves it.
NoteScales == {<<1, 10>>, <<1, 2>>, <<1, 1>>, <<2, 1>>}

NoteAnchors == {Pt(<<1, 2>>, <<1, 2>>), Pt(<<1, 4>>, <<3, 4>>)}

NotePool ==
    UNION {NoteRecord(1, a.x, a.y, getViewport(sc, 0)) : a \in NoteAnchors, sc \in NoteScales}
        \cup {StoredRecord(1, "note", Box(<<1, 4>>, <<1, 4>>, <<3, 4>>, <<3, 4>>))}

Offsets == {-1, 0, 12, 24, 25}

NoteInputs ==
    {[kind |-> "note", done |-> FALSE, record |-> r, viewport |-> getViewport(sc, 0),
      dx |-> dx, dy |-> dy, after |-> r, index |-> 0] :
        r \in NotePool, sc \in NoteScales \ {<<1, 10>>}, dx \in Offsets, dy \in Offsets}

NoteHitAt ==
    /\ probe.kind = "note"
    /\ ~probe.done
    /\ LET at == Scaled(probe.record.coordinates.startX, probe.record.coordinates.startY,
                        probe.viewport)
           hit == getAnnotationAtPoint(<<probe.record>>, RAdd(at.x, RInt(probe.dx)),
                                       RAdd(at.y, RInt(probe.dy)), probe.viewport)
       IN  probe' = [probe EXCEPT !.done = TRUE, !.index = hit.index,
                                  !.after = hit.list[1]]
    /\ UNCHANGED engine

InitNote == Constructed /\ probe \in NoteInputs

SpecNote == InitNote /\ [][NoteHitAt]_vars

\* Boxes of the three types and strokes are committed on one point of the
\* first page while the colour of the palette changes.
ColourTools == BoxTypes \cup {"draw"}

NextColour ==
    \/ loadPDF
    \/ RenderGotPage
    \/ RenderPainted
    \/ \E t \in ColourTools : setTool(t)
    \/ \E c \in Palette : setColor(c)
    \/ \E p \in Corner(layer.viewport) : MouseDown(p)
    \/ \E p \in Corner(layer.viewport) : MouseMove(p)
    \/ \E p \in Corner(layer.viewport) : MouseUp(p)

SpecColour == Init /\ [][NextColour]_vars

\* Boxes are made on the two pages and deleted from the sidebar; the store
\* is exported in either format at any moment and the last file written is
\* imported at any later moment.
NextExport ==
    \/ loadPDF
    \/ RenderGotPage
    \/ RenderPainted
    \/ \E n \in Pages : goToPageNumber(n)
    \/ setTool("highlight")
    \/ \E p \in Corner(layer.viewport) : MouseDown(p)
    \/ \E p \in Corner(layer.viewport) : MouseUp(p)
    \/ \E id \in listed : DeleteClick(id)
    \/ exportAll
    \/ exportAnnotations
    \/ importData

SpecExport == Init /\ [][NextExport]_vars

\* Boxes are made on the two pages and the clear button is pressed at any
\* moment, the dialog being confirmed or declined.
NextClear ==
    \/ loadPDF
    \/ RenderGotPage
    \/ RenderPainted
    \/ \E n \in Pages : goToPageNumber(n)
    \/ setTool("highlight")
    \/ \E p \in Corner(layer.viewport) : MouseDown(p)
    \/ \E p \in Corner(layer.viewport) : MouseUp(p)
    \/ \E c \in BOOLEAN : clearAnnotations(c)

SpecClear == Init /\ [][NextClear]_vars

\* A complete export written by an earlier version, whose records are still
\* in device pixels, is imported into a loaded document and the eraser is
\* pressed on the page image.  Page 1 holds a normalized box around the
\* quarter point and a pixel box beyond the centre of the default viewport,
\* in either order; page 2 may hold a pixel box.
LegacyBox(id, pageNum) ==
    [StoredRecord(id, "highlight",
                  PixelBox(<<1, 2>>, <<1, 2>>, <<5, 8>>, <<5, 8>>, getViewport(DefaultScale, 0)))
        EXCEPT !.page = pageNum]

QuarterBox(id) == StoredRecord(id, "highlight", Box(<<1, 8>>, <<1, 8>>, <<3, 8>>, <<3, 8>>))

LegacyFiles ==
    {exportAllFile([q \in {1} |-> <<QuarterBox(11), LegacyBox(12, 1)>>]),
     exportAllFile([q \in {1, 2} |-> IF q = 1 THEN <<LegacyBox(12, 1), QuarterBox(11)>>
                                     ELSE <<LegacyBox(13, 2)>>])}

ErasePoints(viewport) ==
    IF viewport = Null THEN {}
    ELSE {Scaled(f, f, viewport) : f \in {<<1, 4>>, <<9, 16>>, <<3, 4>>}}

NextErase ==
    \/ loadPDF
    \/ RenderGotPage
    \/ RenderPainted
    \/ \E n \in Pages : goToPageNumber(n)
    \/ importData
    \/ setTool("eraser")
    \/ \E p \in ErasePoints(layer.viewport) : MouseDown(p)

InitErase == Constructed /\ probe \in LegacyFiles

SpecErase == InitErase /\ [][NextErase]_vars

\* getAnnotationAtPoint on a page that holds no record: the page has no
\* entry in the store or an entry left empty by deletions, and the other
\* page may hold a record.  The device point lies on the page or off it and
\* the viewport is any, null included.
OtherPageRecord ==
    [StoredRecord(1, "highlight", Box(<<1, 4>>, <<1, 4>>, <<3, 4>>, <<3, 4>>)) EXCEPT !.page = 2]

EmptyPageStores ==
    {<<>>,
     [q \in {1} |-> <<>>],
     [q \in {2} |-> <<OtherPageRecord>>],
     [q \in {1, 2} |-> IF q = 1 THEN <<>> ELSE <<OtherPageRecord>>]}

DeviceOrdinates == {-1, 0, 50, 200}

EmptyInputs ==
    {[kind |-> "empty", done |-> FALSE, store |-> st, pageNum |-> 1, viewport |-> v,
      x |-> RInt(a), y |-> RInt(b), index |-> 0, threw |-> FALSE, after |-> st] :
        st \in EmptyPageStores,
        v \in {Null, getViewport(DefaultScale, 0), getViewport(<<2, 1>>, 90)},
        a \in DeviceOrdinates, b \in DeviceOrdinates}

\* With a null viewport the first candidate raises a TypeError in
\* normalizedToCanvas.
FindAt ==
    /\ probe.kind = "empty"
    /\ ~probe.done
    /\ LET pageAnnotations == PageList(probe.store, probe.pageNum)
           hit == getAnnotationAtPoint(pageAnnotations, probe.x, probe.y, probe.viewport)
       IN  probe' = [probe EXCEPT !.done = TRUE, !.index = hit.index,
                                  !.threw = (probe.viewport = Null /\ Len(pageAnnotations) > 0),
                                  !.after = PutBack(probe.store, probe.pageNum, hit.list)]
    /\ UNCHANGED engine

InitEmpty == Constructed /\ probe \in EmptyInputs

SpecEmpty == InitEmpty /\ [][FindAt]_vars

(***************************************************************************)
(* The page image.  page.render paints the page into the viewport turned   *)
(* clockwise by viewport.rotation; a point of the unrotated page image is  *)
(* given by its fractions (u, v) of the page width and height.             *)
(***************************************************************************)
ROne == <<1, 1>>

\* The device point at which a viewport shows the page-image point (u, v).
PageToDevice(u, v, viewport) ==
    LET a == CASE viewport.rotation = 0 -> u
               [] viewport.rotation = 90 -> RSub(ROne, v)
               [] viewport.rotation = 180 -> RSub(ROne, u)
               [] viewport.rotation = 270 -> v
        b == CASE viewport.rotation = 0 -> v
               [] viewport.rotation = 90 -> u
               [] viewport.rotation = 180 -> RSub(ROne, v)
               [] viewport.rotation = 270 -> RSub(ROne, u)
    IN  Pt(RMul(a, viewport.width), RMul(b, viewport.height))

\* The page-image point that a viewport shows at the device point (x, y).
DeviceToPage(x, y, viewport) ==
    LET a == RDiv(x, viewport.width)
        b == RDiv(y, viewport.height)
    IN  CASE viewport.rotation = 0 -> Pt(a, b)
          [] viewport.rotation = 90 -> Pt(b, RSub(ROne, a))
          [] viewport.rotation = 180 -> Pt(RSub(ROne, a), RSub(ROne, b))
          [] viewport.rotation = 270 -> Pt(RSub(ROne, b), a)

\* The device box that renderSingleAnnotation and getAnnotationAtPoint
\* compute for a record under a viewport.
RenderedBox(annotation, viewport) ==
    LET c == annotation.coordinates
        canvasStart == normalizedToCanvas(c.startX, c.startY, viewport)
        canvasEnd == normalizedToCanvas(c.endX, c.endY, viewport)
    IN  DeviceBox(canvasStart.x, canvasStart.y, canvasEnd.x, canvasEnd.y)

\* A device box of viewport v1 scaled to the size of viewport v2.
ScaledBox(box, v1, v2) ==
    [minX |-> RDiv(RMul(box.minX, v2.width), v1.width),
     minY |-> RDiv(RMul(box.minY, v2.height), v1.height),
     maxX |-> RDiv(RMul(box.maxX, v2.width), v1.width),
     maxY |-> RDiv(RMul(box.maxY, v2.height), v1.height)]

\* Where viewport v2 shows the region of the page image that the device box
\* covered under viewport v1.
TurnedBox(box, v1, v2) ==
    LET p1 == DeviceToPage(box.minX, box.minY, v1)
        p2 == DeviceToPage(box.maxX, box.maxY, v1)
        d1 == PageToDevice(p1.x, p1.y, v2)
        d2 == PageToDevice(p2.x, p2.y, v2)
    IN  DeviceBox(d1.x, d1.y, d2.x, d2.y)

InsideBox(x, y, box) ==
    /\ RLe(box.minX, x) /\ RLe(x, box.maxX)
    /\ RLe(box.minY, y) /\ RLe(y, box.maxY)

Grid(viewport) ==
    {Pt(RMul(f, viewport.width), RMul(g, viewport.height)) : f \in GridFractions, g \in GridFractions}

\* The records of the displayed page, once its layer listens.
Displayed == IF layer.listening THEN PageList(annotations, pdf.currentPage) ELSE <<>>

C2_RotationStability ==
    \A i \in 1..Len(Displayed) :
        LET r == Displayed[i]
            box == gesture[r.id].box
        IN  (r.type \in BoxTypes /\ RLt(box.minX, box.maxX) /\ RLt(box.minY, box.maxY)) =>
                RenderedBox(r, layer.viewport)
                    = TurnedBox(box, gesture[r.id].viewport, layer.viewport)

\* C3 (SpecRoundTrip).  Round trip as stated: normalizedToCanvas after
\* canvasToNormalized, with the same viewport, gives back the point exactly.
C3_RoundTripExact ==
    (probe.kind = "roundTrip" /\ probe.done) =>
        probe.back = Pt(F64FromInt(probe.p.x), F64FromInt(probe.p.y))

\* The binary64 numbers within one unit in the last place of the integer n.
Near(n) ==
    IF n = 0 THEN {F64Zero}
    ELSE {F64FromInt(n), F64Pred(F64FromInt(n)), F64Succ(F64FromInt(n))}

\* C3 (SpecRoundTrip), amended.  The round trip gives back each coordinate of
\* the point to within one unit in the last place (a relative error of at
\* most 2^-52).
C3_RoundTripWithinUlp ==
    (probe.kind = "roundTrip" /\ probe.done) =>
        (probe.back.x \in Near(probe.p.x) /\ probe.back.y \in Near(probe.p.y))

\* A round trip has been computed and its x is not the x it started from.
C3_Witness ==
    /\ probe.kind = "roundTrip"
    /\ probe.done
    /\ probe.back.x # F64FromInt(probe.p.x)
    /\ probe.back.x \in Near(probe.p.x)

\* The geometry test of the record at index i of the probed page.
Contains(i) ==
    HitTest(migratePixelToNormalized(probe.pageAnnotations[i], probe.viewport),
            probe.x, probe.y, probe.viewport)

\* C4 (SpecHit).  Topmost wins: getAnnotationAtPoint returns the record with
\* the greatest index among those whose geometry test contains the point,
\* and none when no test does.
C4_TopmostWins ==
    (probe.kind = "hit" /\ probe.done) =>
        LET matches == {i \in 1..Len(probe.pageAnnotations) : Contains(i)}
        IN  IF matches = {} THEN probe.index = 0
            ELSE probe.index \in matches /\ \A i \in matches : i <= probe.index

\* The point lies in two box records of the page and the later one was
\* returned.
C4_Witness ==
    /\ probe.kind = "hit"
    /\ probe.done
    /\ \E i, j \in 1..Len(probe.pageAnnotations) :
           /\ i < j
           /\ probe.pageAnnotations[i].type \in BoxTypes
           /\ probe.pageAnnotations[j].type \in BoxTypes
           /\ Contains(i) /\ Contains(j)
           /\ probe.index = j

\* C5 (SpecMigrate).  Migration idempotence: a second call of
\* migratePixelToNormalized with the same viewport leaves the coordinates and
\* the path as the first call left them.
C5_MigrationIdempotent ==
    (probe.kind = "migrate" /\ probe.calls = 2) =>
        /\ probe.record.coordinates = probe.once.coordinates
        /\ probe.record.path = probe.once.path

NoteHitExpected ==
    /\ 0 <= probe.dx /\ probe.dx <= NoteSize
    /\ 0 <= probe.dy /\ probe.dy <= NoteSize

\* C6 (SpecNote).  Fixed-size note hit region as stated: for every note
\* record and viewport the hit test matches exactly in the 24 x 24 device
\* square anchored at (sx * width, sy * height).
C6_NoteHitRegionAnyRecord ==
    (probe.kind = "note" /\ probe.done) => (probe.index = 1 <=> NoteHitExpected)

\* C6 (SpecNote), amended.  The same for the note records whose four stored
\* coordinates have a magnitude of at most 2, the ones the classifier takes
\* for normalized.
C6_NoteHitRegion ==
    (probe.kind = "note" /\ probe.done
        /\ areCoordinatesNormalized(probe.record, probe.viewport))
    => (probe.index = 1 <=> NoteHitExpected)

\* A note is hit at the far corner of its square under a viewport in which
\* its stored end is not 24 pixels from its start.
C6_Witness ==
    /\ probe.kind = "note"
    /\ probe.done
    /\ probe.index = 1
    /\ probe.dx = NoteSize /\ probe.dy = NoteSize
    /\ areCoordinatesNormalized(probe.record, probe.viewport)
    /\ RenderedBox(probe.record, probe.viewport).maxX
           # RAdd(RenderedBox(probe.record, probe.viewport).minX, RInt(NoteSize))

\* C7 (Spec).  deleteAnnotation that ends normally returns true when the
\* identifier was in the store and false when it was not.
C7_DeleteReportsRemoval ==
    (lastCall.del # "none" /\ ~lastCall.threw) =>
        lastCall.ret = (IF lastCall.del = "found" THEN "true" ELSE "false")

\* C8 (Spec).  deleteAnnotation ends normally in every state of the store.
C8_DeleteCompletes == lastCall.del # "none" => ~lastCall.threw

\* C9 (Spec).  openNoteEditor, which renders the page of its note with a
\* null viewport, ends normally.
C9_NullViewportCompletes == lastCall.op = "openNoteEditor" => ~lastCall.threw

C11_BoxCommit ==
    [][(lastCall'.op = "mouseup" /\ currentTool \in BoxTypes)
       => LET id == lastCall'.made
              old == PageList(annotations, pdf.currentPage)
              new == PageList(annotations', pdf.currentPage)
              box == gesture'[id].box
              W == layer.viewport.width
              H == layer.viewport.height
          IN  /\ id \notin Ids(annotations)
              /\ Len(new) = Len(old) + 1
              /\ \A i \in 1..Len(old) : new[i] = old[i]
              /\ \A q \in DOMAIN annotations' \ {pdf.currentPage} :
                     q \in DOMAIN annotations /\ annotations'[q] = annotations[q]
              /\ new[Len(new)].id = id
              /\ new[Len(new)].type = currentTool
              /\ new[Len(new)].page = pdf.currentPage
              /\ new[Len(new)].coordinates =
                     [startX |-> RDiv(box.minX, W), startY |-> RDiv(box.minY, H),
                      endX |-> RDiv(box.maxX, W), endY |-> RDiv(box.maxY, H)]
              /\ ~layer'.isDrawing]_vars

\* The last call was a release that committed a box record over a positive
\* area, and the record is on the current page.
C11_Witness ==
    /\ lastCall.op = "mouseup"
    /\ lastCall.made # 0
    /\ \E r \in Records(annotations) :
           /\ r.id = lastCall.made
           /\ r.type \in BoxTypes
           /\ r.page = pdf.currentPage
           /\ RLt(r.coordinates.startX, r.coordinates.endX)
           /\ RLt(r.coordinates.startY, r.coordinates.endY)

\* C12 (SpecOrder).  Ordering invariant: whatever gestures, deletions and
\* migrations have happened, every record of the store has startX <= endX
\* and startY <= endY.
C12_OrderingInvariant ==
    \A r \in Records(annotations) :
        /\ RLe(r.coordinates.startX, r.coordinates.endX)
        /\ RLe(r.coordinates.startY, r.coordinates.endY)

\* The store holds a note that was created at the smallest scale and has
\* been migrated since, next to a record made by a drag or a stroke that ran
\* backwards over a positive area.
C12_Witness ==
    /\ \E r \in Records(annotations) :
           /\ r.type = "note"
           /\ gesture[r.id].viewport.scale = TinyScale
           /\ RLe(r.coordinates.endX, RInt(LegacyThreshold))
           /\ RLt(r.coordinates.startX, r.coordinates.endX)
    /\ \E r \in Records(annotations) :
           /\ RLt(gesture[r.id].box.minX, gesture[r.id].box.maxX)
           /\ RLt(r.coordinates.startX, r.coordinates.endX)
           /\ RLt(r.coordinates.startY, r.coordinates.endY)
           /\ r.coordinates.endX = <<3, 4>>

\* C13 (SpecStroke).  Bounding box correctness: the coordinates of every
\* draw record of the store are the bounding box of its path: startX is the
\* least x of the path, startY the least y, endX the greatest x and endY the
\* greatest y.
C13_BoundingBox ==
    \A r \in Records(annotations) :
        r.type = "draw" =>
            LET xs == {r.path[i].x : i \in 1..Len(r.path)}
                ys == {r.path[i].y : i \in 1..Len(r.path)}
                c == r.coordinates
            IN  /\ c.startX \in xs /\ \A x \in xs : RLe(c.startX, x)
                /\ c.startY \in ys /\ \A y \in ys : RLe(c.startY, y)
                /\ c.endX \in xs /\ \A x \in xs : RLe(x, c.endX)
                /\ c.endY \in ys /\ \A y \in ys : RLe(y, c.endY)

\* The store holds a stroke whose leftmost point is its lowest one, so that
\* no point of the path is a corner of the box.
C13_Witness ==
    \E r \in Records(annotations) :
        /\ r.type = "draw"
        /\ \E i, j \in 1..Len(r.path) :
               /\ RLt(r.path[i].x, r.path[j].x)
               /\ RLt(r.path[j].y, r.path[i].y)

\* C14 (SpecEmpty).  getAnnotationAtPoint on a page without records, whether
\* the page has an empty entry in the store or none, finds nothing at every
\* device point under every viewport, raises no error and leaves the store
\* as it was.
C14_EmptyPageFindsNothing ==
    (probe.kind = "empty" /\ probe.done) =>
        /\ probe.index = 0
        /\ ~probe.threw
        /\ probe.after = probe.store

\* The hit test has run on a page that has no entry in a store whose other
\* page holds a record, at a point inside the viewport.
C14_Witness ==
    /\ probe.kind = "empty"
    /\ probe.done
    /\ probe.pageNum \notin DOMAIN probe.store
    /\ DOMAIN probe.store # {}
    /\ probe.viewport # Null
    /\ probe.x = RInt(50) /\ probe.y = RInt(50)

\* C15 (Spec).  Note creation: while the note tool is active the only event
\* that commits a record is the double-press; it commits one record of type
\* note with empty content, whose start is the press point in normalized
\* space and whose end lies 24/width and 24/height further, and it leaves
\* the controller idle.  The presses and releases commit nothing.
C15_NoteCreation ==
    [][(currentTool = "note" /\ lastCall'.made # 0)
       => LET id == lastCall'.made
              old == PageList(annotations, pdf.currentPage)
              new == PageList(annotations', pdf.currentPage)
              r == new[Len(new)]
              start == canvasToNormalized(gesture'[id].box.minX, gesture'[id].box.minY,
                                          layer.viewport)
          IN  /\ lastCall'.op = "dblclick"
              /\ Len(new) = Len(old) + 1
              /\ r.id = id /\ r.type = "note" /\ r.content = ""
              /\ r.coordinates =
                     [startX |-> start.x, startY |-> start.y,
                      endX |-> RAdd(start.x, RDiv(RInt(NoteSize), layer.viewport.width)),
                      endY |-> RAdd(start.y, RDiv(RInt(NoteSize), layer.viewport.height))]
              /\ ~layer'.isDrawing]_vars

\* C16 (SpecErase), as stated.  Eraser press: the press removes from the
\* current page exactly the record getAnnotationAtPoint finds at the press
\* point and leaves every other record of every page as it was, in the same
\* order; when it finds none, the store and the controller are unchanged
\* and no error is raised.
C16_EraserPress ==
    [][lastCall'.op = "mousedown"
       => LET page == pdf.currentPage
              old == PageList(annotations, page)
              new == PageList(annotations', page)
              hit == getAnnotationAtPoint(old, lastCall'.at.x, lastCall'.at.y, layer.viewport)
          IN  /\ DOMAIN annotations' = DOMAIN annotations
              /\ \A q \in DOMAIN annotations \ {page} : annotations'[q] = annotations[q]
              /\ IF hit.index = 0
                 THEN /\ annotations' = annotations
                      /\ ~lastCall'.threw
                      /\ UNCHANGED <<currentTool, thisIsDrawing, currentStroke, layer>>
                 ELSE new = RemoveAt(old, hit.index)]_vars

\* A record is as it was, or is its migration under the viewport of the
\* layer.
SameUpToMigration(after, before) ==
    after \in {before, migratePixelToNormalized(before, layer.viewport)}

SameListUpToMigration(after, before) ==
    /\ Len(after) = Len(before)
    /\ \A i \in 1..Len(before) : SameUpToMigration(after[i], before[i])

\* C16 (SpecErase), amended.  Eraser press: the press removes from the
\* current page exactly the record getAnnotationAtPoint finds at the press
\* point; the other records of that page keep their order and are as they
\* were or migrated to normalized coordinates, and the other pages are as
\* they were.  When it finds none, no record is removed or reordered (legacy
\* records of the page may have been migrated), the controller is unchanged
\* and no error is raised.
C16_EraserPressUpToMigration ==
    [][lastCall'.op = "mousedown"
       => LET page == pdf.currentPage
              old == PageList(annotations, page)
              new == PageList(annotations', page)
              hit == getAnnotationAtPoint(old, lastCall'.at.x, lastCall'.at.y, layer.viewport)
          IN  /\ DOMAIN annotations' = DOMAIN annotations
              /\ \A q \in DOMAIN annotations \ {page} : annotations'[q] = annotations[q]
              /\ IF hit.index = 0
                 THEN /\ SameListUpToMigration(new, old)
                      /\ ~lastCall'.threw
                      /\ UNCHANGED <<currentTool, thisIsDrawing, currentStroke, layer>>
                 ELSE SameListUpToMigration(new, RemoveAt(old, hit.index))]_vars

\* An eraser press has removed the normalized box that lay under a legacy
\* box, and the legacy box is left on the page in normalized coordinates.
C16_Witness ==
    /\ lastCall.op = "mousedown"
    /\ lastCall.del = "found"
    /\ 11 \notin Ids(annotations)
    /\ \E r \in Records(annotations) :
           /\ r.id = 12
           /\ r.page = pdf.currentPage
           /\ areCoordinatesNormalized(r, layer.viewport)

\* C17 (SpecColour).  Underline colour override: every underline record of
\* the store has the fixed red, and a release that commits a record stores
\* the fixed red for the underline tool and the colour that is active at
\* that moment for highlight, strikethrough and draw.
C17_UnderlineOverride ==
    /\ [](\A r \in Records(annotations) : r.type = "underline" => r.color = UNDERLINE_RED)
    /\ [][(lastCall'.op = "mouseup" /\ lastCall'.made # 0)
          => \A r \in Records(annotations') :
                 r.id = lastCall'.made =>
                     /\ r.type = IF currentTool \in BoxTypes THEN currentTool ELSE "draw"
                     /\ r.color = IF currentTool = "underline" THEN UNDERLINE_RED
                                  ELSE currentColor]_vars

\* The store holds an underline committed while another colour was active
\* and a record of another type that has that colour.
C17_Witness ==
    /\ currentColor \in Palette
    /\ lastCall.op = "mouseup"
    /\ \E r \in Records(annotations) :
           r.id = lastCall.made /\ r.type = "underline" /\ r.color # currentColor
    /\ \E r \in Records(annotations) :
           r.type \in {"highlight", "strikethrough", "draw"} /\ r.color \in Palette

RECURSIVE SumOver(_, _)
SumOver(f, keys) ==
    IF keys = {} THEN 0
    ELSE LET k == CHOOSE x \in keys : TRUE IN f[k] + SumOver(f, keys \ {k})

\* C19 (Spec).  Statistics consistency: in every state of the store the
\* total of getAnnotationStats is the number of records over all pages, the
\* sum of byPage and the sum of byType; byPage has one entry per page of the
\* store, the length of its sequence, and byType counts the records of each
\* type.
C19_StatsConsistent ==
    LET stats == getAnnotationStats(annotations)
    IN  /\ stats.total = Cardinality(Records(annotations))
        /\ stats.total = SumOver(stats.byPage, DOMAIN stats.byPage)
        /\ stats.total = SumOver(stats.byType, DOMAIN stats.byType)
        /\ DOMAIN stats.byPage = DOMAIN annotations
        /\ \A n \in DOMAIN annotations : stats.byPage[n] = Len(annotations[n])
        /\ DOMAIN stats.byType = {r.type : r \in Records(annotations)}
        /\ \A t \in DOMAIN stats.byType :
               stats.byType[t] = Cardinality({r \in Records(annotations) : r.type = t})

\* The store holds two records of one type on two pages.
C19_Witness ==
    \E r1, r2 \in Records(annotations) :
        r1.type = r2.type /\ r1.page # r2.page

\* C20 (SpecClear).  clearAll: after clearAnnotations with the dialog
\* confirmed the store holds no record on any page, the total of the
\* statistics is 0 and getAnnotationAtPoint finds nothing on any page at any
\* point; with the dialog declined the store is as it was.
C20_ClearAll ==
    [][lastCall'.op = "clearAnnotations"
       => IF lastCall'.ret = "confirmed"
          THEN /\ Records(annotations') = {}
               /\ getAnnotationStats(annotations').total = 0
               /\ \A q \in Pages :
                      \A p \in Grid(getViewport(pdf.scale, pdf.rotation)) :
                          getAnnotationAtPoint(PageList(annotations', q), p.x, p.y,
                                               getViewport(pdf.scale, pdf.rotation)).index = 0
          ELSE annotations' = annotations]_vars

\* The clear has been confirmed after records had been made on both pages
\* and deleted by nothing else.
C20_Witness ==
    /\ lastCall.op = "clearAnnotations"
    /\ lastCall.ret = "confirmed"
    /\ nextId >= 2
    /\ annotations = <<>>

(***************************************************************************)
(* Identifiers.  SpecIds draws what Date.now() and Math.random() return    *)
(* for each record from Clock and Digits: the release of a note press and  *)
(* the dblclick that follows it are dispatched in the same millisecond.    *)
(***************************************************************************)
Clock == {1, 2}

Digits == 0..(DigitSpace - 1)

IdTools == {"highlight", "note"}

NextIds ==
    \/ loadPDF
    \/ RenderGotPage
    \/ RenderPainted
    \/ \E n \in Pages : goToPageNumber(n)
    \/ \E t \in IdTools : setTool(t)
    \/ \E p \in Corner(layer.viewport) : MouseDown(p)
    \/ \E p \in Corner(layer.viewport), now \in Clock, random \in Digits :
          MouseUpWith(p, generateId(now, random))
    \/ \E p \in Corner(layer.viewport), now \in Clock, random \in Digits :
          DblClickWith(p, generateId(now, random))

SpecIds == Init /\ [][NextIds]_vars

\* C21: in every reachable store no two records, on the same page or on
\* different pages, share an id.
C21_IdentifierUniqueness ==
    \A q1 \in DOMAIN annotations, q2 \in DOMAIN annotations :
        \A i \in 1..Len(annotations[q1]), j \in 1..Len(annotations[q2]) :
            (q1 # q2 \/ i # j) => annotations[q1][i].id # annotations[q2][j].id

(***************************************************************************)
(* Tool switches.  In SpecSwitch the user presses with the highlight tool  *)
(* only, picks it only between gestures, and picks another tool only while *)
(* a drag is in progress: a drag whose tool is not highlight is a drag     *)
(* during which the tool was switched.                                     *)
(***************************************************************************)
PressTool == "highlight"

SwitchTools == {"underline", "draw"}

PickTool == ~layer.isDrawing /\ setTool(PressTool)

SwitchTool(tool) == layer.isDrawing /\ currentTool = PressTool /\ setTool(tool)

Press(p) == currentTool = PressTool /\ MouseDown(p)

NextSwitch ==
    \/ loadPDF
    \/ RenderGotPage
    \/ RenderPainted
    \/ PickTool
    \/ \E t \in SwitchTools : SwitchTool(t)
    \/ \E p \in PointerPoints(layer.viewport) : Press(p)
    \/ \E p \in PointerPoints(layer.viewport) : MouseMove(p)
    \/ \E p \in PointerPoints(layer.viewport) : MouseUp(p)

SpecSwitch == Init /\ [][NextSwitch]_vars

\* The tool was switched during the drag in progress.
SwitchedInDrag == layer.isDrawing /\ currentTool # PressTool

\* C22: when the tool has been switched during a drag, the gesture is
\* abandoned: the following release commits no record, and the store and the
\* sidebar list are as they were.
C22_SwitchAbandons ==
    [][SwitchedInDrag /\ lastCall'.op = "mouseup"
       => /\ lastCall'.made = 0
          /\ Ids(annotations') = Ids(annotations)
          /\ listed' = listed]_vars

(***************************************************************************)
(* Releases.  SpecRelease lets the user pick a tool at any moment, also    *)
(* between a press and its release.                                        *)
(***************************************************************************)
ReleaseTools == {"highlight", "draw", "eraser"}

NextRelease ==
    \/ loadPDF
    \/ RenderGotPage
    \/ RenderPainted
    \/ \E t \in ReleaseTools : setTool(t)
    \/ \E p \in Corner(layer.viewport) : MouseDown(p)
    \/ \E p \in PointerPoints(layer.viewport) : MouseMove(p)
    \/ \E p \in PointerPoints(layer.viewport) : MouseUp(p)

SpecRelease == Init /\ [][NextRelease]_vars

\* The controller is in Idle: no drag and no stroke is in progress.
Idle == ~layer.isDrawing /\ ~thisIsDrawing /\ currentStroke = NullStroke

\* C23: whatever the active tool is, a release received while a drag or a
\* stroke is in progress leaves the controller in Idle.
C23_ReleaseReturnsToIdle ==
    [][(~Idle /\ \E p \in PointerPoints(layer.viewport) : MouseUp(p)) => Idle']_vars

\* C24: a press enters Dragging only when the active tool is highlight,
\* underline or strikethrough, and Stroking only when it is draw; a press,
\* move or release with the select tool changes no record and does not
\* leave Idle.
C24_OnlyShapeToolsDrag ==
    [][/\ (~layer.isDrawing /\ layer'.isDrawing /\ ~thisIsDrawing')
          => currentTool \in {"highlight", "underline", "strikethrough"}
       /\ (~thisIsDrawing /\ thisIsDrawing') => currentTool = "draw"
       /\ (/\ currentTool = "select"
           /\ Idle
           /\ \E p \in Corner(layer.viewport) : MouseDown(p) \/ MouseMove(p) \/ MouseUp(p))
          => Idle' /\ annotations' = annotations]_vars

\* The record a commit step has just added to the store.
MadeRecord(store, id) == CHOOSE r \in Records(store) : r.id = id

SequenceFiles ==
    {exportAllFile([q \in {1} |->
        <<StoredRecord(11, "highlight", Box(<<1, 8>>, <<1, 8>>, <<3, 8>>, <<3, 8>>)),
          StoredRecord(12, "highlight", Box(<<1, 8>>, <<1, 8>>, <<1, 2>>, <<1, 2>>)),
          StoredRecord(13, "highlight", Box(<<1, 4>>, <<1, 4>>, <<3, 4>>, <<3, 4>>))>>])}

SequenceTools == {"highlight", "eraser"}

NextSequence ==
    \/ loadPDF
    \/ RenderGotPage
    \/ RenderPainted
    \/ importData
    \/ \E t \in SequenceTools : setTool(t)
    \/ \E p \in Corner(layer.viewport) : MouseDown(p)
    \/ \E p \in Corner(layer.viewport) : MouseUp(p)
    \/ \E id \in listed : DeleteClick(id)

InitSequence == Constructed /\ probe \in SequenceFiles

SpecSequence == InitSequence /\ [][NextSequence]_vars

IdsOf(list) == [i \in 1..Len(list) |-> list[i].id]

\* The indexes of the records of a page that contain a device point.
Matching(list, p, viewport) ==
    {i \in 1..Len(list) :
        HitTest(migratePixelToNormalized(list[i], viewport), p.x, p.y, viewport)}

\* C26 (SpecSequence).  Insertion order is commit order: a commit appends
\* its record at the end of the sequence of the current page and leaves the
\* other pages alone; a delete removes one record and keeps the order of
\* the remaining ones on every page; renderAnnotations draws the records of
\* the page in the order of the sequence; an eraser press works on the
\* sequence as the commits and deletes before it have left it: it removes
\* the last record of the sequence that contains the point, and none when
\* no record of the sequence contains it.
C26_InsertionOrder ==
    /\ [](layer.listening
          => renderAnnotations(annotations, pdf.currentPage, layer.viewport).drawn
             = IdsOf(PageList(annotations, pdf.currentPage)))
    /\ [][LET page == pdf.currentPage
              old == PageList(annotations, page)
              new == PageList(annotations', page)
          IN  /\ lastCall'.made # 0
                 => /\ IdsOf(new) = Append(IdsOf(old), lastCall'.made)
                    /\ \A q \in DOMAIN annotations \ {page} : annotations'[q] = annotations[q]
              /\ lastCall'.del = "found"
                 => /\ Cardinality(Ids(annotations) \ Ids(annotations')) = 1
                    /\ \A q \in DOMAIN annotations :
                          IdsOf(PageList(annotations', q))
                          = SelectSeq(IdsOf(annotations[q]),
                                      LAMBDA id : id \in Ids(annotations'))
              /\ lastCall'.op = "mousedown"
                 => LET hits == Matching(old, lastCall'.at, layer.viewport)
                    IN  IF hits = {}
                        THEN lastCall'.del = "none" /\ IdsOf(new) = IdsOf(old)
                        ELSE LET top == CHOOSE i \in hits : \A j \in hits : j <= i
                             IN  /\ lastCall'.del = "found"
                                 /\ Ids(annotations) \ Ids(annotations') = {old[top].id}]_vars

\* The first record of the imported sequence has been deleted while the
\* page held a record committed after the import: the sequence now holds an
\* imported record followed by a committed one.
C26_Witness ==
    /\ lastCall.del = "found"
    /\ 11 \notin Ids(annotations)
    /\ LET list == PageList(annotations, 1)
       IN  /\ Len(list) >= 3
           /\ list[1].id > MaxId
           /\ list[Len(list)].id <= MaxId

(***************************************************************************)
(* Previews.  SpecPreview starts from the complete exports of SpecErase,   *)
(* which hold a legacy pixel-space record; the user imports one, hovers    *)
(* with the eraser and moves during drags and strokes.                     *)
(***************************************************************************)
PreviewTools == {"highlight", "draw", "eraser"}

NextPreview ==
    \/ loadPDF
    \/ RenderGotPage
    \/ RenderPainted
    \/ importData
    \/ \E t \in PreviewTools : setTool(t)
    \/ \E p \in Corner(layer.viewport) : MouseDown(p)
    \/ \E p \in ErasePoints(layer.viewport) : MouseMove(p)
    \/ \E p \in Corner(layer.viewport) : MouseUp(p)

InitPreview == Constructed /\ probe \in LegacyFiles

SpecPreview == InitPreview /\ [][NextPreview]_vars

\* A pointer move: the mousemove handler with its preview.
Moved == \E p \in ErasePoints(layer.viewport) : MouseMove(p)

C28_NoteEditFrame ==
    [][lastCall'.op = "openNoteEditor"
       => LET e == CHOOSE x \in pendingEditor : x \notin pendingEditor'
          IN  /\ ~lastCall'.threw
              /\ DOMAIN annotations' = DOMAIN annotations
              /\ \A q \in DOMAIN annotations :
                    /\ Len(annotations'[q]) = Len(annotations[q])
                    /\ \A i \in 1..Len(annotations[q]) :
                          LET before == annotations[q][i]
                              after == annotations'[q][i]
                          IN  IF before.id = e.id
                              THEN after = [before EXCEPT !.content = after.content]
                              ELSE after = before]_vars

\* C29 (Spec).  Lazy pages: every page entry of the store holds at least
\* one record, and getAnnotationStats reports no page with 0 records.
C29_LazyPages ==
    /\ \A q \in DOMAIN annotations : Len(annotations[q]) >= 1
    /\ LET byPage == getAnnotationStats(annotations).byPage
       IN  \A q \in DOMAIN byPage : byPage[q] # 0

(***************************************************************************)
(* The box hit test.  SpecBox calls getAnnotationAtPoint on a page that    *)
(* holds one highlight, underline or strikethrough record: a box, a        *)
(* horizontal line, a single point or a legacy box in pixels, at the       *)
(* points of a grid and one device pixel to each side of them.             *)
(***************************************************************************)
BoxShapes ==
    {Box(<<1, 4>>, <<1, 4>>, <<3, 4>>, <<3, 4>>),
     Box(<<1, 4>>, <<1, 2>>, <<3, 4>>, <<1, 2>>),
     Box(<<1, 2>>, <<1, 2>>, <<1, 2>>, <<1, 2>>),
     PixelBox(<<1, 4>>, <<1, 4>>, <<1, 2>>, <<1, 2>>, getViewport(<<2, 1>>, 0))}

PixelOffsets == {-1, 0, 1}

BoxPoints(viewport) ==
    {Pt(RAdd(RMul(f, viewport.width), RInt(dx)), RAdd(RMul(g, viewport.height), RInt(dy))) :
        f \in {<<1, 4>>, <<1, 2>>, <<3, 4>>}, g \in {<<1, 4>>, <<1, 2>>, <<3, 4>>},
        dx \in PixelOffsets, dy \in PixelOffsets}

BoxInputs ==
    UNION {{[kind |-> "hit", done |-> FALSE,
             pageAnnotations |-> <<StoredRecord(1, t, c)>>, viewport |-> v,
             x |-> pt.x, y |-> pt.y, index |-> 0] : pt \in BoxPoints(v), t \in BoxTypes,
                                                    c \in BoxShapes} :
           v \in {getViewport(DefaultScale, 0), getViewport(<<2, 1>>, 0)}}

InitBox == Constructed /\ probe \in BoxInputs

SpecBox == InitBox /\ [][HitAt]_vars

\* The device point of the probe lies in the axis-aligned box whose corners
\* are (startX * W, startY * H) and (endX * W, endY * H), boundary included.
InDeviceBox(c, viewport) ==
    LET x1 == RMul(c.startX, viewport.width)
        y1 == RMul(c.startY, viewport.height)
        x2 == RMul(c.endX, viewport.width)
        y2 == RMul(c.endY, viewport.height)
    IN  /\ RLe(RMin(x1, x2), probe.x) /\ RLe(probe.x, RMax(x1, x2))
        /\ RLe(RMin(y1, y2), probe.y) /\ RLe(probe.y, RMax(y1, y2))

\* C30 (SpecBox).  Box hit test: getAnnotationAtPoint returns a highlight,
\* underline or strikethrough record it examines exactly when the device
\* point lies in the axis-aligned box with corners (startX * W, startY * H)
\* and (endX * W, endY * H) of the coordinates the record has when the call
\* returns, boundary included; a box of zero area is returned only at its
\* own point.
C30_BoxHitTest ==
    (probe.kind = "hit" /\ probe.done) =>
        \A i \in 1..Len(probe.pageAnnotations) :
            LET r == probe.pageAnnotations[i]
                c == r.coordinates
            IN  (r.type \in BoxTypes /\ i >= probe.index) =>
                    /\ (i = probe.index) <=> InDeviceBox(c, probe.viewport)
                    /\ (c.startX = c.endX /\ c.startY = c.endY /\ i = probe.index)
                       => /\ probe.x = RMul(c.startX, probe.viewport.width)
                          /\ probe.y = RMul(c.startY, probe.viewport.height)

\* The call has returned a box of positive area for a point on its left
\* edge, below its top edge.
C30_Witness ==
    /\ probe.kind = "hit" /\ probe.done
    /\ Len(probe.pageAnnotations) = 1
    /\ probe.index = 1
    /\ LET c == probe.pageAnnotations[1].coordinates
       IN  /\ probe.pageAnnotations[1].type \in BoxTypes
           /\ RLt(c.startX, c.endX) /\ RLt(c.startY, c.endY)
           /\ probe.x = RMul(c.startX, probe.viewport.width)
           /\ RLt(RMul(c.startY, probe.viewport.height), probe.y)

(***************************************************************************)
(* The draw hit test.  SpecPath calls getAnnotationAtPoint on a page that  *)
(* holds one draw record: a horizontal segment, a diagonal polyline of two *)
(* segments, a segment of zero length or a path of one point, at points    *)
(* around the ends and the middle of the horizontal segment.               *)
(***************************************************************************)
DrawRecord(id, path) ==
    LET box == calculateBoundingBox(path)
    IN  [StoredRecord(id, "draw", Box(box.minX, box.minY, box.maxX, box.maxY))
            EXCEPT !.path = path]

PathShapes ==
    {<<Pt(<<1, 4>>, <<1, 2>>), Pt(<<3, 4>>, <<1, 2>>)>>,
     <<Pt(<<1, 4>>, <<1, 4>>), Pt(<<1, 2>>, <<1, 2>>), Pt(<<3, 4>>, <<1, 4>>)>>,
     <<Pt(<<1, 4>>, <<1, 2>>), Pt(<<1, 4>>, <<1, 2>>)>>,
     <<Pt(<<3, 4>>, <<1, 2>>)>>}

PathOffsets == {-11, -10, -8, -6, 0, 6, 8, 10, 11}

PathPoints(viewport) ==
    {Pt(RAdd(RMul(f, viewport.width), RInt(dx)), RAdd(RMul(<<1, 2>>, viewport.height), RInt(dy))) :
        f \in {<<1, 4>>, <<1, 2>>, <<3, 4>>}, dx \in PathOffsets, dy \in PathOffsets}

PathInputs ==
    UNION {{[kind |-> "hit", done |-> FALSE,
             pageAnnotations |-> <<DrawRecord(1, path)>>, viewport |-> v,
             x |-> pt.x, y |-> pt.y, index |-> 0] : pt \in PathPoints(v), path \in PathShapes} :
           v \in {getViewport(DefaultScale, 0), getViewport(<<2, 1>>, 0)}}

InitPath == Constructed /\ probe \in PathInputs

SpecPath == InitPath /\ [][HitAt]_vars

\* The square of the distance from the device point of the probe to the
\* segment from p1 to p2: to p1 when the foot of the perpendicular lies
\* before p1 or the segment has no length, to p2 when it lies after p2, and
\* to the line otherwise (cross product over length).
SegmentDistanceSq(p1, p2) ==
    LET ax == RSub(probe.x, p1.x)
        ay == RSub(probe.y, p1.y)
        bx == RSub(probe.x, p2.x)
        by == RSub(probe.y, p2.y)
        cx == RSub(p2.x, p1.x)
        cy == RSub(p2.y, p1.y)
        dot == RAdd(RMul(ax, cx), RMul(ay, cy))
        lenSq == RAdd(RMul(cx, cx), RMul(cy, cy))
        cross == RSub(RMul(ax, cy), RMul(ay, cx))
    IN  IF lenSq = RInt(0) \/ RLe(dot, RInt(0)) THEN RAdd(RMul(ax, ax), RMul(ay, ay))
        ELSE IF RLe(lenSq, dot) THEN RAdd(RMul(bx, bx), RMul(by, by))
        ELSE RDiv(RMul(cross, cross), lenSq)

\* Some segment of the path, in the device space of the viewport, is within
\* the tolerance of the device point of the probe.
NearPath(path, viewport) ==
    \E j \in 1..(Len(path) - 1) :
        RLe(SegmentDistanceSq(Scaled(path[j].x, path[j].y, viewport),
                              Scaled(path[j + 1].x, path[j + 1].y, viewport)),
            RInt(DrawTolerance * DrawTolerance))

\* C31 (SpecPath).  Draw hit test: getAnnotationAtPoint returns a draw
\* record it examines exactly when the least distance from the device point
\* to the consecutive segments of its path, converted to device space with
\* the viewport, is at most 10 device pixels; the distance to a segment is
\* taken to its nearest point, an end point when the projection falls
\* outside the segment or the segment has no length.
C31_DrawHitTest ==
    (probe.kind = "hit" /\ probe.done) =>
        \A i \in 1..Len(probe.pageAnnotations) :
            LET r == probe.pageAnnotations[i]
            IN  (r.type = "draw" /\ i >= probe.index) =>
                    ((i = probe.index) <=> NearPath(r.path, probe.viewport))

\* The call has returned a stroke for a point that lies beyond the end of
\* its last segment, exactly 10 device pixels from that end and off the line
\* of the segment.
C31_Witness ==
    /\ probe.kind = "hit" /\ probe.done
    /\ probe.index = 1
    /\ LET r == probe.pageAnnotations[1]
           last == Scaled(r.path[Len(r.path)].x, r.path[Len(r.path)].y, probe.viewport)
       IN  /\ r.type = "draw"
           /\ Len(r.path) = 2 /\ r.path[1] # r.path[2]
           /\ probe.x = RAdd(last.x, RInt(6))
           /\ probe.y = RAdd(last.y, RInt(8))

(***************************************************************************)
(* The guard of the migration.  SpecGuard calls migratePixelToNormalized   *)
(* on records around the threshold: a normalized box, a box whose largest  *)
(* coordinate is exactly 2, boxes just above it on either sign, and a box  *)
(* in pixels, with and without a viewport.                                 *)
(***************************************************************************)
GuardBoxes ==
    {Box(<<1, 4>>, <<1, 4>>, <<3, 4>>, <<3, 4>>),
     Box(<<1, 1>>, <<1, 1>>, <<2, 1>>, <<2, 1>>),
     Box(<<1, 1>>, <<1, 1>>, <<1, 1>>, <<201, 100>>),
     Box(<<-3, 1>>, <<1, 1>>, <<1, 1>>, <<1, 1>>),
     PixelBox(<<1, 4>>, <<1, 4>>, <<3, 4>>, <<3, 4>>, getViewport(DefaultScale, 0))}

GuardInputs ==
    {[kind |-> "migrate", calls |-> 0, viewport |-> v,
      record |-> [StoredRecord(7, t, c) EXCEPT !.content = "memo", !.page = 2],
      once |-> StoredRecord(7, t, c)] :
        v \in {getViewport(DefaultScale, 0), getViewport(<<2, 1>>, 0), Null},
        t \in {"highlight", "draw", "note"}, c \in GuardBoxes}

InitGuard == Constructed /\ probe \in GuardInputs

SpecGuard == InitGuard /\ [][Migrate]_vars

\* All four coordinates have a magnitude of at most 2.
WithinThreshold(c) ==
    \A v \in {c.startX, c.startY, c.endX, c.endY} :
        RLe(RInt(-LegacyThreshold), v) /\ RLe(v, RInt(LegacyThreshold))

\* C32 (SpecGuard).  Migration guard: a call of migratePixelToNormalized
\* returns the record as it was when the viewport is absent or all four
\* coordinates have a magnitude of at most 2; otherwise it divides every x of
\* the coordinates by the width and every y by the height, does the same to
\* every path point of a draw record, and leaves the path of another record
\* and the fields id, type, color, page and content as they were.
C32_MigrationGuard ==
    [][(probe.kind = "migrate" /\ probe'.calls = probe.calls + 1)
       => LET before == probe.record
              after == probe'.record
              v == probe.viewport
          IN  IF v = Null \/ WithinThreshold(before.coordinates)
              THEN after = before
              ELSE /\ after.coordinates =
                        [startX |-> RDiv(before.coordinates.startX, v.width),
                         startY |-> RDiv(before.coordinates.startY, v.height),
                         endX |-> RDiv(before.coordinates.endX, v.width),
                         endY |-> RDiv(before.coordinates.endY, v.height)]
                   /\ Len(after.path) = Len(before.path)
                   /\ \A i \in 1..Len(before.path) :
                         IF before.type = "draw"
                         THEN /\ after.path[i].x = RDiv(before.path[i].x, v.width)
                              /\ after.path[i].y = RDiv(before.path[i].y, v.height)
                         ELSE after.path[i] = before.path[i]
                   /\ after.id = before.id /\ after.type = before.type
                   /\ after.color = before.color /\ after.page = before.page
                   /\ after.content = before.content]_vars

\* One call has divided the coordinates and the path of a draw record whose
\* startX was -3: startX and the x of the first path point are now the same
\* fraction between -1 and 0.
C32_Witness ==
    /\ probe.kind = "migrate" /\ probe.calls = 1
    /\ probe.record.type = "draw"
    /\ RLt(RInt(-1), probe.record.coordinates.startX)
    /\ RLt(probe.record.coordinates.startX, RInt(0))
    /\ probe.record.path[1].x = probe.record.coordinates.startX

\* C33 (SpecColour).  Zero-area boxes are committed: a release at the point
\* of the press with highlight, underline or strikethrough appends exactly
\* one record to the current page, with startX = endX and startY = endY at
\* that point; a release with the draw tool after a press without a move
\* adds nothing.
C33_ZeroAreaCommitted ==
    [][LET old == PageList(annotations, pdf.currentPage)
           new == PageList(annotations', pdf.currentPage)
       IN  /\ (layer.isDrawing /\ currentTool \in BoxTypes /\ MouseUp(layer.start))
              => /\ lastCall'.made # 0
                 /\ Len(new) = Len(old) + 1
                 /\ \A i \in 1..Len(old) : new[i].id = old[i].id
                 /\ LET r == new[Len(new)]
                    IN  /\ r.id = lastCall'.made
                        /\ r.type = currentTool
                        /\ r.coordinates.startX = r.coordinates.endX
                        /\ r.coordinates.startY = r.coordinates.endY
                        /\ r.coordinates.startX = RDiv(layer.start.x, layer.viewport.width)
                        /\ r.coordinates.startY = RDiv(layer.start.y, layer.viewport.height)
           /\ (/\ layer.isDrawing /\ currentTool = "draw"
               /\ ~currentStroke.null /\ Len(currentStroke.points) = 1
               /\ MouseUp(layer.start))
              => /\ lastCall'.made = 0
                 /\ IdsOf(new) = IdsOf(old)]_vars

\* A release at the point of the press has just committed a strikethrough
\* record without area.
C33_Witness ==
    /\ lastCall.op = "mouseup"
    /\ lastCall.made # 0
    /\ LET r == MadeRecord(annotations, lastCall.made)
       IN  /\ r.type = "strikethrough"
           /\ r.coordinates.startX = r.coordinates.endX
           /\ r.coordinates.startY = r.coordinates.endY

(***************************************************************************)
(* renderSingleAnnotation.  What the function paints for one record under  *)
(* a viewport: the style it sets, the opacity and the rectangle it fills   *)
(* (for a stroke, the device points of its polyline).  SpecRender calls it *)
(* on records of every type and of several stored colours, as an import    *)
(* can bring them into the store.                                          *)
(***************************************************************************)
renderSingleAnnotation(annotation, viewport) ==
    LET migratedAnnotation == migratePixelToNormalized(annotation, viewport)
        c == migratedAnnotation.coordinates
        canvasCoords == normalizedToCanvas(c.startX, c.startY, viewport)
        canvasCoords2 == normalizedToCanvas(c.endX, c.endY, viewport)
        startX == canvasCoords.x
        startY == canvasCoords.y
        endX == canvasCoords2.x
        endY == canvasCoords2.y
        Rect(x, y, w, h) == [x |-> x, y |-> y, w |-> w, h |-> h]
        path == migratedAnnotation.path
    IN  CASE annotation.type = "highlight" ->
                [style |-> annotation.color, globalAlpha |-> <<3, 10>>,
                 rect |-> Rect(startX, startY, RSub(endX, startX), RSub(endY, startY)),
                 line |-> <<>>]
          [] annotation.type = "underline" ->
                [style |-> annotation.color, globalAlpha |-> <<4, 5>>,
                 rect |-> Rect(startX, RSub(endY, RInt(2)), RSub(endX, startX), RInt(4)),
                 line |-> <<>>]
          [] annotation.type = "strikethrough" ->
                [style |-> annotation.color, globalAlpha |-> <<4, 5>>,
                 rect |-> Rect(startX,
                               RSub(RAdd(startY, RDiv(RSub(endY, startY), RInt(2))), RInt(1)),
                               RSub(endX, startX), RInt(2)),
                 line |-> <<>>]
          [] annotation.type = "draw" ->
                [style |-> migratedAnnotation.color, globalAlpha |-> <<1, 1>>,
                 rect |-> Rect(RInt(0), RInt(0), RInt(0), RInt(0)),
                 line |-> [i \in 1..Len(path) |->
                              normalizedToCanvas(path[i].x, path[i].y, viewport)]]
          [] OTHER ->
                [style |-> NOTE_BACKGROUND, globalAlpha |-> <<1, 1>>,
                 rect |-> Rect(startX, startY, RInt(NoteSize), RInt(NoteSize)),
                 line |-> <<>>]

RenderInputs ==
    {[kind |-> "render", done |-> FALSE, viewport |-> v,
      record |-> [StoredRecord(1, t, c) EXCEPT !.color = colour],
      painted |-> Null] :
        v \in {getViewport(DefaultScale, 0), getViewport(<<2, 1>>, 0)},
        t \in BoxTypes \cup {"draw", "note"},
        colour \in Palette \cup {DEFAULT_COLOR, UNDERLINE_RED},
        c \in {Box(<<1, 4>>, <<1, 4>>, <<3, 4>>, <<3, 4>>),
               PixelBox(<<1, 4>>, <<1, 4>>, <<1, 2>>, <<1, 2>>, getViewport(<<2, 1>>, 0))}}

\* One call of renderSingleAnnotation(ctx, annotation, viewport).
RenderOne ==
    /\ probe.kind = "render"
    /\ ~probe.done
    /\ probe' = [probe EXCEPT !.done = TRUE,
                              !.record = migratePixelToNormalized(probe.record, probe.viewport),
                              !.painted = renderSingleAnnotation(probe.record, probe.viewport)]
    /\ UNCHANGED engine

InitRender == Constructed /\ probe \in RenderInputs

SpecRender == InitRender /\ [][RenderOne]_vars

\* C34 (SpecRender).  Underline rendering colour: an underline record is
\* painted in the fixed red, whatever colour it stores.
C34_UnderlineFixedRed ==
    (probe.kind = "render" /\ probe.done /\ probe.record.type = "underline")
    => probe.painted.style = UNDERLINE_RED

(***************************************************************************)
(* The display.  SpecDisplay watches the annotation canvas: the user has   *)
(* a complete export with a note on page 1 at hand, opens a document,      *)
(* makes boxes and notes on its first page, erases, deletes from the       *)
(* sidebar, clears and imports.                                            *)
(***************************************************************************)
DisplayFiles ==
    {exportAllFile([q \in {1} |->
        <<StoredRecord(11, "note", Box(<<1, 8>>, <<1, 8>>, <<1, 4>>, <<1, 4>>))>>])}

NextDisplay ==
    \/ loadPDF
    \/ RenderGotPage
    \/ RenderPainted
    \/ \E t \in StoreTools : setTool(t)
    \/ \E p \in Corner(layer.viewport) : MouseDown(p)
    \/ \E p \in Corner(layer.viewport) : MouseUp(p)
    \/ \E p \in Corner(layer.viewport) : DblClick(p)
    \/ \E e \in pendingEditor, c \in NoteTexts \cup {"null"} : openNoteEditor(e, c)
    \/ \E id \in listed : DeleteClick(id)
    \/ \E c \in BOOLEAN : clearAnnotations(c)
    \/ importData

InitDisplay == ConstructedManagers /\ surface = Blank(0) /\ probe \in DisplayFiles

SpecDisplay == InitDisplay /\ [][NextDisplay]_vars

\* The last handler was a commit, a deletion, a clear or an import, and it
\* returned.
StoreChanged ==
    /\ ~lastCall.threw
    /\ \/ lastCall.made # 0
       \/ lastCall.del = "found"
       \/ lastCall.op = "clearAnnotations" /\ lastCall.ret = "confirmed"
       \/ lastCall.op = "importData" /\ lastCall.ret = "imported"

\* The canvas shows the records of the page it was built for, and the click
\* handler holds the notes of that page.
ShowsStore ==
    LET list == PageList(annotations, surface.page)
    IN  /\ {surface.drawn[i] : i \in 1..Len(surface.drawn)} = {list[i].id : i \in 1..Len(list)}
        /\ surface.clickable = NoteIds(list)

\* C35: after every completed commit, delete, clear or import the
\* annotation surface of the displayed page shows exactly the records the
\* store holds for that page, none missing, none removed still drawn or
\* clickable.  A page that is still being rendered is left out.
C35_DisplayFollowsStore == (renderPc = "idle" /\ layer.listening /\ StoreChanged) => ShowsStore

(***************************************************************************)
(* Page attribution.  SpecNavigate watches which page the mounted layer    *)
(* was built for while the user turns pages and makes boxes and notes;     *)
(* pointer events arrive at any moment of an asynchronous renderPage.      *)
(***************************************************************************)
NavigateTools == {"highlight", "note"}

NextNavigate ==
    \/ loadPDF
    \/ RenderGotPage
    \/ RenderPainted
    \/ \E n \in Pages : goToPageNumber(n)
    \/ \E t \in NavigateTools : setTool(t)
    \/ \E p \in Corner(layer.viewport) : MouseDown(p)
    \/ \E p \in Corner(layer.viewport) : MouseUp(p)
    \/ \E p \in Corner(layer.viewport) : DblClick(p)

InitNavigate == ConstructedManagers /\ surface = Blank(0) /\ probe = NoProbe

SpecNavigate == InitNavigate /\ [][NextNavigate]_vars

\* C36: the record a gesture has just committed is stored under the page
\* that the layer of the gesture displays and carries that page in its page
\* field, whatever renderPage is doing in the meantime.
C36_PageAttribution ==
    lastCall.made # 0 =>
        \A q \in DOMAIN annotations : \A i \in 1..Len(annotations[q]) :
            annotations[q][i].id = lastCall.made =>
                q = surface.page /\ annotations[q][i].page = q

\* The part of C36 that the code keeps: page field and page key agree.
PageFieldIsKey ==
    \A q \in DOMAIN annotations : \A i \in 1..Len(annotations[q]) : annotations[q][i].page = q

(***************************************************************************)
(* The range of stored coordinates.  SpecRange puts the pointer on the     *)
(* first and the last point of the viewport while boxes, strokes and       *)
(* notes are made on the first page.                                       *)
(***************************************************************************)
RangeTools == {"highlight", "draw", "note"}

\* Positions with 0 <= x <= width and 0 <= y <= height.
RangePoints(viewport) ==
    IF viewport = Null THEN {}
    ELSE {Pt(RInt(0), RInt(0)), Pt(viewport.width, viewport.height)}

NextRange ==
    \/ loadPDF
    \/ RenderGotPage
    \/ RenderPainted
    \/ \E t \in RangeTools : setTool(t)
    \/ \E p \in RangePoints(layer.viewport) : MouseDown(p)
    \/ \E p \in RangePoints(layer.viewport) : MouseMove(p)
    \/ \E p \in RangePoints(layer.viewport) : MouseUp(p)
    \/ \E p \in RangePoints(layer.viewport) : DblClick(p)

SpecRange == Init /\ [][NextRange]_vars

InUnit(c) == RLe(RInt(0), c) /\ RLe(c, RInt(1))

\* C37: every record committed by a gesture whose pointer positions lie
\* inside the viewport has startX, startY, endX, endY and all its path
\* points within [0, 1], notes made near the right or bottom edge included.
C37_NormalizedRange ==
    \A r \in Records(annotations) :
        /\ InUnit(r.coordinates.startX) /\ InUnit(r.coordinates.startY)
        /\ InUnit(r.coordinates.endX) /\ InUnit(r.coordinates.endY)
        /\ \A i \in 1..Len(r.path) : InUnit(r.path[i].x) /\ InUnit(r.path[i].y)

\* The same range for the records that are not notes.
RangeOfShapes ==
    \A r \in Records(annotations) :
        r.type # "note" =>
            /\ InUnit(r.coordinates.startX) /\ InUnit(r.coordinates.startY)
            /\ InUnit(r.coordinates.endX) /\ InUnit(r.coordinates.endY)
            /\ \A i \in 1..Len(r.path) : InUnit(r.path[i].x) /\ InUnit(r.path[i].y)

(***************************************************************************)
(* Render requests.  SpecRequests sends page, rotation and zoom requests   *)
(* at any moment of an asynchronous renderPage and watches which page the  *)
(* mounted layer was built for.  Nothing calls queuePageRender, so the     *)
(* render queue stays empty.                                               *)
(***************************************************************************)
NextRequests ==
    \/ loadPDF
    \/ RenderGotPage
    \/ RenderPainted
    \/ \E n \in Pages : goToPageNumber(n)
    \/ rotateLeft
    \/ rotateRight
    \/ \E sc \in Scales \cup {DefaultScale} : setZoom(sc)
    \/ setZoomRender

SpecRequests == InitNavigate /\ [][NextRequests]_vars

\* No render is in progress and no request is on its way to renderPage.
Settled == pdf.pdfDoc /\ renderPc = "idle" /\ ~pdf.isRendering /\ ~zoomPending

\* C38: once no render is in progress the displayed page and the viewport
\* handed to the annotation engine are those of the current values of
\* currentPage, scale and rotation, however the requests interleaved with
\* renderPage.
C38_NoLostRequest ==
    Settled =>
        /\ layer.listening
        /\ surface.page = pdf.currentPage
        /\ layer.viewport = getViewport(pdf.scale, pdf.rotation)

\* The part of C38 that the code keeps: the displayed page is currentPage.
DisplayedIsCurrent == Settled => surface.page = pdf.currentPage
====
